---- MODULE Spec2Model ----
(***************************************************************************)
(* Scam detection engine: signal catalogue (signals.py), rule matcher      *)
(* (rules.py), confidence scorer (scorer.py), detection orchestrator       *)
(* (detector.py) and the gateway path that calls it (bridge.py,            *)
(* api-gateway/main.py, api-gateway/router.py, session_manager.py).        *)
(*                                                                         *)
(* Numbers.  A score is kept as an exact integer number of 1/Scale, with   *)
(* Scale = 100 * Unit and Unit = 2^11 * 25, so that every product and      *)
(* every halving the scorer performs on at most 8 signals is exact.  The   *)
(* code computes in binary floating point; the two agree except on which   *)
(* neighbour round(x, 2) picks when x lies exactly half-way between two    *)
(* hundredths.  A reported confidence is an integer number of hundredths.  *)
(***************************************************************************)
EXTENDS Integers, Sequences, FiniteSets, TLC

VARIABLES
  scorer,                \* fields of the ConfidenceScorer made by the last call
  signals,               \* score_message: the signals argument
  conversation_history,  \* score_message: the conversation_history argument
  scoring,               \* score_message: the value returned
  input_data,            \* detect_scam: the argument
  outcome,               \* detect_scam: the value returned or exception raised
  messages,              \* batch_detect: the argument
  results,               \* batch_detect: the list returned
  callers,               \* each caller of detect_scam: where its call stands
  completed,             \* the detect_scam calls that have ended, in order
  turns,                 \* a conversation scored turn by turn: the messages
  confidences,           \* ... and the confidence reported at each turn
  sessions,              \* SessionManager.sessions
  request,               \* the request the gateway handled last
  response,              \* ... and its answer
  _sessions,             \* persona.py: SessionState._sessions
  reply,                 \* persona.py: the reply generated last
  sent_callbacks,        \* GUVICallback.sent_callbacks
  pending_reports,       \* GUVICallback.pending_reports (its keys, in order)
  failed_reports,        \* the files of GUVICallback.failed_reports_dir
  senders,               \* each call of send_final_result: where it stands
  accepted,              \* the callbacks the evaluation endpoint accepted
  callback_calls         \* the calls of GUVICallback that have ended, in order

scoreVars == <<signals, conversation_history, scoring>>
detectVars == <<input_data, outcome>>
batchVars == <<messages, results>>
callVars == <<callers, completed>>
turnVars == <<turns, confidences>>
gatewayVars == <<sessions, request, response>>
personaVars == <<_sessions, reply>>
callbackVars ==
  <<sent_callbacks, pending_reports, failed_reports, senders, accepted,
    callback_calls>>

vars ==
  <<scorer, scoreVars, detectVars, batchVars, callVars, turnVars, gatewayVars,
    personaVars, callbackVars>>

besideScore ==
  <<detectVars, batchVars, callVars, turnVars, gatewayVars, personaVars,
    callbackVars>>
besideDetect ==
  <<scoreVars, batchVars, callVars, turnVars, gatewayVars, personaVars,
    callbackVars>>
besideBatch ==
  <<scoreVars, detectVars, callVars, turnVars, gatewayVars, personaVars,
    callbackVars>>
besideCalls ==
  <<scoreVars, detectVars, batchVars, turnVars, gatewayVars, personaVars,
    callbackVars>>
besideTurns ==
  <<scoreVars, detectVars, batchVars, callVars, gatewayVars, personaVars,
    callbackVars>>
besideGateway ==
  <<scoreVars, detectVars, batchVars, callVars, turnVars, personaVars,
    callbackVars>>
besidePersona ==
  <<scoreVars, detectVars, batchVars, callVars, turnVars, gatewayVars,
    callbackVars>>
besideCallback ==
  <<scoreVars, detectVars, batchVars, callVars, turnVars, gatewayVars,
    personaVars>>

(* No value yet (a call that has not been made).                            *)
None == [kind |-> "none"]

----------------------------------------------------------------------------
(* Bounds of the model.                                                    *)

MaxSignals == 3
MaxHistory == 4
MaxEntries == 3
MaxBatch == 3
NumCallers == 2
MaxCalls == 3
MaxTurns == 4
MaxRequests == 2

----------------------------------------------------------------------------
(* signals.py : the signal catalogue.                                      *)

URGENCY_PRESSURE == "urgency_pressure"
ACCOUNT_AUTHORITY == "account_authority"
PAYMENT == "payment"
PHISHING == "phishing"
CONVERSATION == "conversation"

(* SignalType values, listed group by group in the order in which the rule *)
(* matcher emits them.                                                     *)
SignalType ==
  << "urgency", "time_pressure", "deadline", "immediate_action",
     "account_threat", "account_suspension", "kyc_failure",
     "bank_impersonation", "government_impersonation",
     "authority_impersonation",
     "upi_request", "otp_request", "account_number_request",
     "card_details_request", "pin_request", "payment_request",
     "suspicious_link", "shortened_url", "login_request", "verify_link",
     "misspelled_domain", "phishing",
     "repetition", "escalation", "copy_paste", "ignoring_questions",
     "deflection" >>

SignalTypes == { SignalType[i] : i \in 1..Len(SignalType) }

SIGNAL_TO_CATEGORY(sig) ==
  CASE sig \in {"urgency", "time_pressure", "deadline", "immediate_action"}
         -> URGENCY_PRESSURE
    [] sig \in {"account_threat", "account_suspension", "kyc_failure",
                "authority_impersonation", "bank_impersonation",
                "government_impersonation"}
         -> ACCOUNT_AUTHORITY
    [] sig \in {"payment_request", "upi_request", "otp_request",
                "account_number_request", "card_details_request",
                "pin_request"}
         -> PAYMENT
    [] sig \in {"phishing", "suspicious_link", "shortened_url",
                "login_request", "verify_link", "misspelled_domain"}
         -> PHISHING
    [] OTHER -> CONVERSATION

(* Base weights, in hundredths.                                            *)
SIGNAL_WEIGHTS(sig) ==
  CASE sig \in {"otp_request", "pin_request"} -> 40
    [] sig = "card_details_request" -> 35
    [] sig \in {"account_number_request", "upi_request"} -> 30
    [] sig = "account_suspension" -> 25
    [] sig = "suspicious_link" -> 22
    [] sig \in {"verify_link", "shortened_url"} -> 20
    [] sig \in {"authority_impersonation", "bank_impersonation",
                "government_impersonation", "kyc_failure", "account_threat",
                "payment_request", "misspelled_domain"} -> 18
    [] sig \in {"urgency", "time_pressure", "deadline", "immediate_action",
                "login_request", "phishing", "ignoring_questions"} -> 12
    [] sig = "escalation" -> 15
    [] OTHER -> 10

get_signal_weight(sig) == SIGNAL_WEIGHTS(sig)

get_signal_category(sig) == SIGNAL_TO_CATEGORY(sig)

----------------------------------------------------------------------------
(* Exact arithmetic on scores.                                             *)

Unit == 2048 * 25
Scale == 100 * Unit

Hundredths(n) == n * Unit

Min(a, b) == IF a <= b THEN a ELSE b
Max(a, b) == IF a >= b THEN a ELSE b

RECURSIVE Pow2(_)
Pow2(i) == IF i = 0 THEN 1 ELSE 2 * Pow2(i - 1)

Range(seq) == { seq[i] : i \in 1..Len(seq) }

(* round(x, 2): the nearest hundredth, an exact tie going to the even one. *)
round2(x) ==
  LET q == x \div Unit
      r == x % Unit
  IN  IF 2 * r > Unit THEN q + 1
      ELSE IF 2 * r = Unit THEN q + (q % 2)
      ELSE q

----------------------------------------------------------------------------
(* scorer.py : ConfidenceScorer.                                           *)

SCAM_DETECTION_THRESHOLD == Hundredths(70)
CATEGORY_DIVERSITY_BONUS == Hundredths(15)

(* ConfidenceScorer.reset: the fields of a freshly constructed scorer.     *)
reset == [seen_signals_history |-> <<>>, turn_count |-> 0]

RECURSIVE InsertDesc(_, _)
InsertDesc(w, sorted) ==
  IF sorted = <<>> THEN <<w>>
  ELSE IF w >= Head(sorted) THEN <<w>> \o sorted
  ELSE <<Head(sorted)>> \o InsertDesc(w, Tail(sorted))

RECURSIVE SortedDesc(_)
SortedDesc(ws) ==
  IF ws = <<>> THEN <<>> ELSE InsertDesc(Head(ws), SortedDesc(Tail(ws)))

RECURSIVE DecayedSum(_, _)
DecayedSum(weights, i) ==
  IF weights = <<>> THEN 0
  ELSE Head(weights) * (Unit \div Pow2(i)) + DecayedSum(Tail(weights), i + 1)

(* A variant that adds the weights up without decay.                       *)
_calculate_base_score_summed(sigs) ==
  LET total[i \in 0..Len(sigs)] ==
        IF i = 0 THEN 0 ELSE total[i - 1] + get_signal_weight(sigs[i]) * Unit
  IN  total[Len(sigs)]

_calculate_base_score(sigs) ==
  IF sigs = <<>> THEN 0
  ELSE LET weights ==
             SortedDesc([i \in 1..Len(sigs) |-> get_signal_weight(sigs[i])])
       IN  DecayedSum(weights, 0)

_get_unique_categories(sigs) ==
  { get_signal_category(sigs[i]) : i \in 1..Len(sigs) }

_has_high_severity_signals(sigs) ==
  \E i \in 1..Len(sigs) :
    sigs[i] \in {"otp_request", "pin_request", "card_details_request",
                 "account_number_request"}

_is_classic_scam_combo(sigs) ==
  LET has_payment ==
        \E i \in 1..Len(sigs) :
          sigs[i] \in {"upi_request", "account_number_request", "otp_request",
                       "pin_request", "card_details_request"}
      has_threat ==
        \E i \in 1..Len(sigs) :
          sigs[i] \in {"account_threat", "account_suspension", "kyc_failure"}
      has_authority ==
        \E i \in 1..Len(sigs) :
          sigs[i] \in {"bank_impersonation", "authority_impersonation",
                       "government_impersonation"}
  IN  (has_payment /\ has_threat) \/ (has_payment /\ has_authority)

(* The turn multiplier, in tenths (10 is 1.0, 14 is 1.4).                  *)
_calculate_turn_multiplier(current_signals, history) ==
  LET turn_count == Len(history) + 1
      turns_with_signals == turn_count
      multiplier == 10 + Min(turns_with_signals - 1, 3)
      boosted ==
        IF \E i \in 1..Len(current_signals) :
             current_signals[i] \in {"repetition", "escalation",
                                     "ignoring_questions", "copy_paste"}
        THEN multiplier + 1 ELSE multiplier
  IN  IF turn_count = 1 THEN 10 ELSE Min(boosted, 14)

(* _apply_first_message_cap with the critical-alone branch only capping.   *)
_apply_first_message_cap_unfloored(score, sigs) ==
  LET has_critical ==
        \E i \in 1..Len(sigs) :
          sigs[i] \in {"otp_request", "pin_request", "card_details_request"}
      has_payment ==
        \E i \in 1..Len(sigs) :
          sigs[i] \in {"upi_request", "account_number_request"}
      has_pressure ==
        \E i \in 1..Len(sigs) :
          get_signal_category(sigs[i]) \in {URGENCY_PRESSURE, ACCOUNT_AUTHORITY}
      categories == _get_unique_categories(sigs)
  IN  IF has_critical /\ has_pressure THEN Min(score, Hundredths(95))
      ELSE IF has_critical THEN Min(score, Hundredths(80))
      ELSE IF has_payment /\ has_pressure THEN Min(score, Hundredths(85))
      ELSE IF Cardinality(categories) >= 3 THEN Min(score, Hundredths(75))
      ELSE IF Len(sigs) >= 3 THEN Min(score, Hundredths(65))
      ELSE Min(score, Hundredths(55))

_apply_first_message_cap(score, sigs) ==
  LET has_critical ==
        \E i \in 1..Len(sigs) :
          sigs[i] \in {"otp_request", "pin_request", "card_details_request"}
      has_payment ==
        \E i \in 1..Len(sigs) :
          sigs[i] \in {"upi_request", "account_number_request"}
      has_pressure ==
        \E i \in 1..Len(sigs) :
          get_signal_category(sigs[i]) \in {URGENCY_PRESSURE, ACCOUNT_AUTHORITY}
      categories == _get_unique_categories(sigs)
  IN  IF has_critical /\ has_pressure THEN Min(score, Hundredths(95))
      ELSE IF has_critical
        THEN Max(Min(score, Hundredths(80)), Hundredths(70))
      ELSE IF has_payment /\ has_pressure THEN Min(score, Hundredths(85))
      ELSE IF Cardinality(categories) >= 3 THEN Min(score, Hundredths(75))
      ELSE IF Len(sigs) >= 3 THEN Min(score, Hundredths(65))
      ELSE Min(score, Hundredths(55))

(* calculate_confidence, the running score after each of its steps:       *)
(* 1. the base score with the category-diversity bonus,                    *)
with_diversity(sigs) ==
  IF Cardinality(_get_unique_categories(sigs)) >= 2
  THEN _calculate_base_score(sigs) + CATEGORY_DIVERSITY_BONUS
  ELSE _calculate_base_score(sigs)

(* 2. the high-severity boost (HIGH_SEVERITY_MULTIPLIER = 1.3),            *)
with_severity(sigs) ==
  IF _has_high_severity_signals(sigs)
  THEN (with_diversity(sigs) * 13) \div 10 ELSE with_diversity(sigs)

(* 3. the classic-combo boost (1.25),                                      *)
with_combo(sigs) ==
  IF _is_classic_scam_combo(sigs)
  THEN (with_severity(sigs) * 5) \div 4 ELSE with_severity(sigs)

(* 4. the multi-turn escalation.                                           *)
with_turns(sigs, history) ==
  IF Len(history) > 0
  THEN (with_combo(sigs) \div 10) * _calculate_turn_multiplier(sigs, history)
  ELSE with_combo(sigs)

(* The chain of calculate_confidence before its closing clamp.             *)
unclamped_confidence(sigs, history, is_first_message) ==
  IF is_first_message
  THEN _apply_first_message_cap(with_turns(sigs, history), sigs)
  ELSE with_turns(sigs, history)

(* calculate_confidence returning the score without clamping it to [0, 1]. *)
calculate_confidence_unclamped(sigs, history, is_first_message) ==
  IF sigs = <<>> THEN 0
  ELSE unclamped_confidence(sigs, history, is_first_message)

calculate_confidence(sigs, history, is_first_message) ==
  IF sigs = <<>> THEN 0
  ELSE
    LET score == unclamped_confidence(sigs, history, is_first_message)
    IN  Min(Max(score, 0), Scale)

is_scam_detected(confidence) == confidence >= SCAM_DETECTION_THRESHOLD

(* score_message.  live is the scorer instance left by earlier calls; the  *)
(* function constructs its own, so live is not read.  The record returned  *)
(* carries the instance the call used besides the two public fields.  A    *)
(* variant that keeps one instance across calls and counts its turns comes *)
(* first.                                                                  *)
ScoringResult(own, confidence) ==
  [confidence |-> round2(confidence),
   scamDetected |-> is_scam_detected(confidence),
   scorer |-> own]

score_message_shared(live, sigs, history) ==
  ScoringResult([live EXCEPT !.turn_count = live.turn_count + 1],
                calculate_confidence(sigs, history, live.turn_count = 0))

score_message(live, sigs, history) ==
  ScoringResult(reset, calculate_confidence(sigs, history, Len(history) = 0))

----------------------------------------------------------------------------
(* Values handed to the engine.                                            *)
(*                                                                         *)
(* A string is a sequence of tokens: words of Vocabulary, separated by one *)
(* blank each, and the token " " standing for additional whitespace.  <<>> *)
(* is the empty string.  The words are chosen so that every keyword and    *)
(* pattern of rules.py matches a text exactly when it matches one of its   *)
(* tokens.                                                                 *)

Vocabulary ==
  {"otp", "OTP", "upi", "kyc", "urgent", "block", "why", "send",
   "x@ybl", "www.a.zz", "9876543210"}

Blank == " "

(* str.lower, token by token.                                              *)
lowerToken(tok) == IF tok = "OTP" THEN "otp" ELSE tok

lower(str) == [i \in 1..Len(str) |-> lowerToken(str[i])]

(* str.split: the words between whitespace.                                *)
split(str) == SelectSeq(str, LAMBDA tok : tok # Blank)

RECURSIVE lstrip(_)
lstrip(str) ==
  IF str # <<>> /\ Head(str) = Blank THEN lstrip(Tail(str)) ELSE str

RECURSIVE rstrip(_)
rstrip(str) ==
  IF str # <<>> /\ str[Len(str)] = Blank
  THEN rstrip(SubSeq(str, 1, Len(str) - 1)) ELSE str

(* str.strip.                                                              *)
strip(str) == rstrip(lstrip(str))

(* A JSON value in the place of the text: a string or anything else.      *)
Str(tokens) == [type |-> "str", tokens |-> tokens]
NotAString == [type |-> "other", tokens |-> <<>>]

(* A history entry: a message object {sender, text} whose text is any JSON *)
(* value, or a value that is not a map.                                    *)
Message(sender, text) == [type |-> "dict", sender |-> sender, text |-> text]
NotAMessage == [type |-> "other", sender |-> "", text |-> NotAString]

(* A JSON value in the place of conversationHistory: a list of entries, or *)
(* a value that is not a list and is truthy ("abc") or falsy (0, null).    *)
List(items) == [type |-> "list", truthy |-> items # <<>>, items |-> items]
NotAList(truthy) == [type |-> "other", truthy |-> truthy, items |-> <<>>]

(* The entries a history value is iterated over; a falsy value is never    *)
(* iterated.                                                               *)
Items(history) == IF history.type = "list" THEN history.items ELSE <<>>

(* A Python dict with insertion order, as a sequence of <<key, value>>.    *)
DictSet(d, key, value) ==
  IF \E i \in 1..Len(d) : d[i][1] = key
  THEN [i \in 1..Len(d) |-> IF d[i][1] = key THEN <<key, value>> ELSE d[i]]
  ELSE Append(d, <<key, value>>)

----------------------------------------------------------------------------
(* rules.py : the rule matcher.  Each rule lists, of its patterns, the     *)
(* words of Vocabulary they match (lower case).                            *)

PatternRule(signal, patterns, description) ==
  [signal |-> signal, patterns |-> patterns, description |-> description]

matches(rule, text) ==
  \E i \in 1..Len(text) : lowerToken(text[i]) \in rule.patterns

URGENCY_RULES ==
  << PatternRule("urgency", {"urgent"}, "General urgency keywords"),
     PatternRule("time_pressure", {}, "Time-based pressure"),
     PatternRule("deadline", {}, "Deadline-based threats"),
     PatternRule("immediate_action", {}, "Demands for immediate action") >>

ACCOUNT_THREAT_RULES ==
  << PatternRule("account_threat", {}, "Account threat keywords"),
     PatternRule("account_suspension", {}, "Account suspension patterns"),
     PatternRule("kyc_failure", {"kyc"}, "KYC-related threats"),
     PatternRule("bank_impersonation", {}, "Bank impersonation"),
     PatternRule("government_impersonation", {},
                 "Government authority impersonation"),
     PatternRule("authority_impersonation", {},
                 "General authority impersonation") >>

PAYMENT_REQUEST_RULES ==
  << PatternRule("upi_request", {"upi"}, "UPI and payment ID requests"),
     PatternRule("otp_request", {"otp"}, "OTP/verification code requests"),
     PatternRule("account_number_request", {},
                 "Bank account number requests"),
     PatternRule("card_details_request", {}, "Card details requests"),
     PatternRule("pin_request", {}, "PIN requests"),
     PatternRule("payment_request", {}, "General payment requests") >>

PHISHING_RULES ==
  << PatternRule("suspicious_link", {"www.a.zz"}, "URLs and link requests"),
     PatternRule("shortened_url", {}, "Shortened URL patterns"),
     PatternRule("login_request", {}, "Login credential requests"),
     PatternRule("verify_link", {}, "Verification link patterns"),
     PatternRule("misspelled_domain", {}, "Common domain misspellings") >>

(* |words1 & words2| / |words1 | words2| as the pair <<numerator,          *)
(* denominator>>; <<0, 1>> when either text has no word.                   *)
_text_similarity(text1, text2) ==
  LET words1 == Range(split(lower(text1)))
      words2 == Range(split(lower(text2)))
  IN  IF words1 = {} \/ words2 = {} THEN <<0, 1>>
      ELSE <<Cardinality(words1 \cap words2), Cardinality(words1 \cup words2)>>

(* messages[-3:] *)
LastThree(msgs) ==
  IF Len(msgs) <= 3 THEN msgs ELSE SubSeq(msgs, Len(msgs) - 2, Len(msgs))

detect_repetition(msgs) ==
  IF Len(msgs) < 2 THEN FALSE
  ELSE LET recent_messages == LastThree(msgs)
       IN  \E i \in 1..(Len(recent_messages) - 1) :
             LET similarity ==
                   _text_similarity(recent_messages[i], recent_messages[i + 1])
             IN  5 * similarity[1] > 4 * similarity[2]

(* Of the threat keywords only "block" is a word of Vocabulary.            *)
threat_keywords == {"block"}

ThreatCount(msg) ==
  Cardinality({k \in threat_keywords :
                 \E i \in 1..Len(msg) : lowerToken(msg[i]) = k})

detect_escalation(msgs) ==
  IF Len(msgs) < 2 THEN FALSE
  ELSE ThreatCount(msgs[Len(msgs)]) > ThreatCount(msgs[Len(msgs) - 1])

(* Of the indicators only "why" and "send" are words of Vocabulary.        *)
question_indicators == {"why"}
demand_indicators == {"send"}

FirstFive(ws) == IF Len(ws) <= 5 THEN ws ELSE SubSeq(ws, 1, 5)

(* The loop of detect_ignoring_questions from index i on: "True", "False",  *)
(* or "raise" when .lower() is called on a text that is not a string.      *)
RECURSIVE ignoring_from(_, _)
ignoring_from(i, history) ==
  IF i > Len(history) - 2 THEN "False"
  ELSE IF history[i].sender # "user" THEN ignoring_from(i + 1, history)
  ELSE IF history[i].text.type # "str" THEN "raise"
  ELSE
    LET user_text == lower(history[i].text.tokens)
        has_question ==
          \E k \in 1..Len(user_text) : user_text[k] \in question_indicators
    IN  IF ~has_question THEN ignoring_from(i + 1, history)
        ELSE IF history[i + 1].text.type # "str" THEN "raise"
        ELSE
          LET next_msg == lower(history[i + 1].text.tokens)
              scammer_ignores ==
                ~ \E w \in Range(FirstFive(split(user_text))) :
                    w \in Range(next_msg)
              makes_demand ==
                \E k \in 1..Len(next_msg) : next_msg[k] \in demand_indicators
          IN  IF scammer_ignores /\ makes_demand THEN "True"
              ELSE ignoring_from(i + 1, history)

detect_ignoring_questions(history) ==
  IF Len(history) < 3 THEN "False" ELSE ignoring_from(1, history)

detect_copy_paste(msgs) ==
  IF Len(msgs) < 2 THEN FALSE
  ELSE \E i, j \in 1..Len(msgs) :
         i < j /\ lower(strip(msgs[i])) = lower(strip(msgs[j]))

all_rules ==
  URGENCY_RULES \o ACCOUNT_THREAT_RULES \o PAYMENT_REQUEST_RULES
    \o PHISHING_RULES

(* The loop of detect_signals over all_rules, from rule k on.              *)
RECURSIVE match_rules(_, _, _, _)
match_rules(k, text, detected_signals, explanations) ==
  IF k > Len(all_rules)
  THEN [detected_signals |-> detected_signals, explanations |-> explanations]
  ELSE LET rule == all_rules[k]
       IN  IF matches(rule, text) /\ rule.signal \notin Range(detected_signals)
           THEN match_rules(k + 1, text,
                            Append(detected_signals, rule.signal),
                            DictSet(explanations, rule.signal,
                                    rule.description))
           ELSE match_rules(k + 1, text, detected_signals, explanations)

(* One conversation detector of detect_signals: append when it fires.  A   *)
(* variant that puts the signal in front of those found before comes       *)
(* first.                                                                  *)
AppendIf_first(fires, found, signal, description) ==
  IF fires
  THEN [detected_signals |-> <<signal>> \o found.detected_signals,
        explanations |-> DictSet(found.explanations, signal, description)]
  ELSE found

AppendIf(fires, found, signal, description) ==
  IF fires
  THEN [detected_signals |-> Append(found.detected_signals, signal),
        explanations |-> DictSet(found.explanations, signal, description)]
  ELSE found

Raise(exception, message) ==
  [kind |-> "raise", exception |-> exception, message |-> message]


(* detect_signals.  It returns, or raises AttributeError: when it calls     *)
(* .get on an entry that is not a map, and when a detector calls .lower()  *)
(* on a text that is not a string (detect_escalation does so on every      *)
(* scammer message, detect_ignoring_questions on the texts it reaches).    *)
detect_signals(text, history) ==
  LET from_text == match_rules(1, text, <<>>, <<>>)
  IN  IF ~history.truthy
      THEN [kind |-> "return",
            detected_signals |-> from_text.detected_signals,
            explanations |-> from_text.explanations]
      ELSE IF \E i \in 1..Len(Items(history)) :
                Items(history)[i].type # "dict"
      THEN Raise("AttributeError", "'str' object has no attribute 'get'")
      ELSE
        LET entries == Items(history)
            from_scammer ==
              SelectSeq(entries, LAMBDA msg : msg.sender = "scammer")
        IN  IF \E i \in 1..Len(from_scammer) : from_scammer[i].text.type # "str"
            THEN Raise("AttributeError",
                       "'NoneType' object has no attribute 'lower'")
            ELSE
              LET scammer_messages ==
                    Append([i \in 1..Len(from_scammer) |->
                              from_scammer[i].text.tokens], text)
                  f1 == AppendIf(detect_repetition(scammer_messages),
                                 from_text, "repetition",
                                 "Scammer is repeating similar messages")
                  f2 == AppendIf(detect_escalation(scammer_messages), f1,
                                 "escalation",
                                 "Threat level escalating across conversation")
                  f3 == AppendIf(detect_copy_paste(scammer_messages), f2,
                                 "copy_paste",
                                 "Exact message repetition detected")
                  ignoring == detect_ignoring_questions(entries)
                  f4 == AppendIf(ignoring = "True", f3, "ignoring_questions",
                                 "Scammer ignores questions and repeats demands")
              IN  IF ignoring = "raise"
                  THEN Raise("AttributeError",
                             "'NoneType' object has no attribute 'lower'")
                  ELSE [kind |-> "return",
                        detected_signals |-> f4.detected_signals,
                        explanations |-> f4.explanations]

----------------------------------------------------------------------------
(* detector.py : the orchestrator.                                         *)

(* A DetectionInput as received: a map with optional fields, or a value    *)
(* that is not a map.                                                      *)
Dict(has_text, text, has_history, history) ==
  [type |-> "dict", has_text |-> has_text, text |-> text,
   has_history |-> has_history, conversationHistory |-> history]
NotADict ==
  [type |-> "other", has_text |-> FALSE, text |-> NotAString,
   has_history |-> FALSE, conversationHistory |-> List(<<>>)]


(* What detect_scam holds once detect_signals has ended.                   *)
Detected(history, found) ==
  IF found.kind = "raise" THEN found
  ELSE [kind |-> "detected", conversation_history |-> history,
        detected_signal_types |-> found.detected_signals,
        signal_explanations |-> found.explanations]

(* detect_scam up to and including detect_signals: the exception raised,   *)
(* or the text, the history kept and the signals found.                    *)
validate_and_detect(input) ==
  IF input.type # "dict" THEN Raise("ValueError", "Input must be a dictionary")
  ELSE IF ~input.has_text
    THEN Raise("ValueError", "Input must contain 'text' field")
  ELSE IF input.text.type # "str" \/ strip(input.text.tokens) = <<>>
    THEN Raise("ValueError", "'text' must be a non-empty string")
  ELSE
    LET given == IF input.has_history THEN input.conversationHistory
                 ELSE List(<<>>)
        history == IF given.truthy /\ given.type # "list" THEN List(<<>>)
                   ELSE given
    IN  Detected(history, detect_signals(input.text.tokens, history))

(* detect_scam from score_message on: an exception raised before passes    *)
(* through.  live is the scorer instance left by earlier calls; the record *)
(* returned carries the instance this call used.                           *)
Output(detected, scoring_result) ==
  [kind |-> "return",
   scamDetected |-> scoring_result.scamDetected,
   confidence |-> scoring_result.confidence,
   signals |-> detected.detected_signal_types,
   explanation |-> detected.signal_explanations,
   scorer |-> scoring_result.scorer]

score_and_build(live, detected) ==
  IF detected.kind = "raise" THEN detected
  ELSE Output(detected,
              score_message(live, detected.detected_signal_types,
                            Items(detected.conversation_history)))

detect_scam(live, input) == score_and_build(live, validate_and_detect(input))

(* What the caller sees of a detect_scam call.                             *)
Returned(r) ==
  IF r.kind = "return"
  THEN [kind |-> "return", scamDetected |-> r.scamDetected,
        confidence |-> r.confidence, signals |-> r.signals,
        explanation |-> r.explanation]
  ELSE r

ScorerAfter(live, r) == IF r.kind = "return" THEN r.scorer ELSE live

(* The entry batch_detect puts in place of a call that raised e.           *)
ErrorResult(e) ==
  [kind |-> "error", error |-> e.message, scamDetected |-> FALSE,
   confidence |-> 0, signals |-> <<>>, explanation |-> <<>>]

(* The body of the loop of batch_detect: the try block and its handler,    *)
(* which append to the results the outcome r of the call.  A variant whose *)
(* handler appends nothing comes first.                                    *)
appended_dropping(live, sofar, r) ==
  [results |-> IF r.kind = "raise" THEN sofar ELSE Append(sofar, Returned(r)),
   scorer |-> ScorerAfter(live, r)]

appended(live, sofar, r) ==
  [results |-> Append(sofar, IF r.kind = "raise" THEN ErrorResult(r)
                             ELSE Returned(r)),
   scorer |-> ScorerAfter(live, r)]

batch_step(live, sofar, message) ==
  appended(live, sofar, detect_scam(live, message))

(* The loop of batch_detect from message i on, with the results so far.    *)
RECURSIVE batch_detect_from(_, _, _, _)
batch_detect_next(i, msgs, step) ==
  batch_detect_from(i + 1, step.scorer, msgs, step.results)

batch_detect_from(i, live, msgs, sofar) ==
  IF i > Len(msgs) THEN [results |-> sofar, scorer |-> live]
  ELSE batch_detect_next(i, msgs, batch_step(live, sofar, msgs[i]))

batch_detect(live, msgs) == batch_detect_from(1, live, msgs, <<>>)

----------------------------------------------------------------------------
(* bridge.py: ScamDetectorBridge.analyze_message.  Every exception of      *)
(* detect_scam is caught and answered with the safe default.               *)
Adapted(live, result) ==
  IF result.kind = "return"
  THEN [is_scam |-> result.scamDetected, confidence |-> result.confidence,
        signals |-> result.signals, error |-> "", scorer |-> result.scorer]
  ELSE [is_scam |-> FALSE, confidence |-> 0, signals |-> <<>>,
        error |-> result.message, scorer |-> live]

analyze_message(live, text, history) ==
  Adapted(live, detect_scam(live, Dict(TRUE, text, TRUE, history)))

----------------------------------------------------------------------------
(* intelligence-engine/patterns.py and extractor.py, on conversations      *)
(* whose texts are made of the words of Vocabulary.  Of these words        *)
(* "x@ybl" is a UPI id, "www.a.zz" a link, and "9876543210" both an        *)
(* account number and a phone number; none is an IFSC code.  The keywords  *)
(* the words hold are "otp" (a credential request), "urgent" and "block".  *)

(* PATTERNS: for each kind of entity, the words its patterns find.         *)
PATTERNS ==
  [upi_id |-> {"x@ybl"}, bank_account |-> {"9876543210"},
   phone_number |-> {"9876543210"}, url |-> {"www.a.zz"}, ifsc_code |-> {}]

NoEntities ==
  [bank_accounts |-> {}, ifsc_codes |-> {}, phone_numbers |-> {},
   upi_ids |-> {}, phishing_links |-> {}]

credential_request == {"otp"}

Keywords == {"otp", "urgent", "block"}

(* pattern.findall over the joined text, for the patterns of one kind.     *)
findall(kind, texts) ==
  { word \in PATTERNS[kind] :
      \E i \in 1..Len(texts) : word \in Range(texts[i]) }

_extract_entities(texts) ==
  [NoEntities EXCEPT
     !.upi_ids = findall("upi_id", texts),
     !.bank_accounts = findall("bank_account", texts),
     !.phone_numbers = findall("phone_number", texts),
     !.phishing_links = findall("url", texts),
     !.ifsc_codes = findall("ifsc_code", texts)]

_extract_keywords(texts) ==
  { k \in Keywords :
      \E i \in 1..Len(texts) : k \in Range(lower(texts[i])) }

_is_intelligence_complete(entities, keywords, message_count) ==
  LET has_upi == entities.upi_ids # {}
      has_bank_details ==
        entities.bank_accounts # {} /\ entities.ifsc_codes # {}
      total_entities ==
        Cardinality(entities.bank_accounts) + Cardinality(entities.ifsc_codes)
          + Cardinality(entities.phone_numbers)
          + Cardinality(entities.upi_ids)
          + Cardinality(entities.phishing_links)
  IN  \/ has_upi \/ has_bank_details
      \/ Cardinality(entities.phishing_links) >= 2
      \/ message_count >= 10 /\ total_entities > 0
      \/ Cardinality(keywords \cap credential_request) >= 3

(* analyze_conversation.  _extract_text joins the texts and raises         *)
(* TypeError when one of them is not a string.                             *)
analyze_conversation(history) ==
  IF \E i \in 1..Len(history) : history[i].text.type # "str"
  THEN Raise("TypeError", "sequence item: expected str instance")
  ELSE LET texts == [i \in 1..Len(history) |-> history[i].text.tokens]
       IN  [kind |-> "return",
            complete |-> _is_intelligence_complete(
                           _extract_entities(texts), _extract_keywords(texts),
                           Len(history))]

----------------------------------------------------------------------------
(* api-gateway/session_manager.py                                          *)


Session ==
  [state |-> "INIT", conversation_history |-> <<>>, message_count |-> 0,
   scam_detected |-> FALSE, intelligence_ready |-> FALSE,
   scam_signals |-> <<>>]

add_message(session, message) ==
  [session EXCEPT
     !.conversation_history = Append(session.conversation_history, message),
     !.message_count = session.message_count + 1]

transition_to(session, new_state) == [session EXCEPT !.state = new_state]

get_or_create_session(all, session_id) ==
  IF session_id \in DOMAIN all THEN all
  ELSE [id \in DOMAIN all \cup {session_id} |->
          IF id = session_id THEN Session ELSE all[id]]

----------------------------------------------------------------------------
(* api-gateway/auth.py, main.py and router.py                              *)

(* The body of a request: JSON that is an object, JSON that is empty (or   *)
(* null), or text that is not JSON.  The message of an object is a map     *)
(* with or without its keys, or another value.                             *)
MessageDict(has_sender, sender, has_text, text) ==
  [type |-> "dict", has_sender |-> has_sender, sender |-> sender,
   has_text |-> has_text, text |-> text]
NotAnObject ==
  [MessageDict(FALSE, "", FALSE, NotAString) EXCEPT !.type = "other"]

Payload(has_sessionId, sessionId, has_message, message, history) ==
  [type |-> "dict", has_sessionId |-> has_sessionId, sessionId |-> sessionId,
   has_message |-> has_message, message |-> message,
   conversationHistory |-> history]
EmptyPayload ==
  [Payload(FALSE, "", FALSE, NotAnObject, List(<<>>)) EXCEPT !.type = "empty"]
NotJson ==
  [Payload(FALSE, "", FALSE, NotAnObject, List(<<>>)) EXCEPT !.type = "invalid"]

validate_api_key(api_key) == api_key # ""

_validate_payload(payload) ==
  IF payload.type = "empty" THEN "Empty payload"
  ELSE IF ~payload.has_sessionId THEN "Missing sessionId"
  ELSE IF ~payload.has_message THEN "Missing message"
  ELSE IF payload.message.type # "dict" THEN "Message must be an object"
  ELSE IF ~payload.message.has_sender THEN "Message missing sender"
  ELSE IF ~payload.message.has_text THEN "Message missing text"
  ELSE ""

(* A variant that reports the session whatever send_callback returned.     *)
_trigger_final_callback_regardless(session, delivered) ==
  IF session.state # "INTEL_COMPLETE" THEN session
  ELSE transition_to(session, "REPORTED")

(* _trigger_final_callback: delivered tells whether send_callback got the  *)
(* report through.                                                         *)
_trigger_final_callback(session, delivered) ==
  IF session.state # "INTEL_COMPLETE" THEN session
  ELSE IF delivered THEN transition_to(session, "REPORTED")
  ELSE session

(* _extract_intelligence: an exception of analyze_conversation is answered *)
(* with complete = False.                                                  *)
OrIncomplete(result) ==
  IF result.kind = "raise" THEN [complete |-> FALSE]
  ELSE [complete |-> result.complete]

_extract_intelligence(session) ==
  OrIncomplete(analyze_conversation(session.conversation_history))

(* process_message, for a payload that passed _validate_payload, in the    *)
(* order of its steps, the last one first.  The reply text and the entity  *)
(* lists of the response are left out.                                     *)

(* The response, with the session as the call leaves it; callback tells    *)
(* whether the call went through _trigger_final_callback.                  *)
process_response(all, session_id, scam_result, complete, session, callback) ==
  [kind |-> "return",
   sessions |-> [all EXCEPT ![session_id] = session],
   scorer |-> scam_result.scorer,
   callback |-> callback,
   response |->
     [status |-> "success",
      scamDetected |-> scam_result.is_scam,
      confidence |-> scam_result.confidence,
      signals |-> scam_result.signals,
      collection_complete |-> complete,
      state |-> session.state,
      message_count |-> session.message_count]]

(* A variant that triggers the callback whenever the intelligence is       *)
(* complete.                                                               *)
process_callback_unguarded(all, session_id, scam_result, delivered, session, complete) ==
  process_response(
    all, session_id, scam_result, complete,
    IF complete
    THEN _trigger_final_callback(
           [transition_to(session, "INTEL_COMPLETE")
              EXCEPT !.intelligence_ready = TRUE], delivered)
    ELSE session,
    complete)

(* The callback when a scam was detected and the intelligence is complete. *)
process_callback(all, session_id, scam_result, delivered, session, complete) ==
  process_response(
    all, session_id, scam_result, complete,
    IF session.scam_detected /\ complete
    THEN _trigger_final_callback(
           [transition_to(session, "INTEL_COMPLETE")
              EXCEPT !.intelligence_ready = TRUE], delivered)
    ELSE session,
    session.scam_detected /\ complete)

(* Step 4: intelligence extraction.                                        *)
process_extract(all, session_id, scam_result, delivered, session) ==
  process_callback(all, session_id, scam_result, delivered, session,
                   _extract_intelligence(session).complete)

(* Step 2: the transitions that follow the detection.                      *)
suspect(session, is_scam) ==
  IF is_scam /\ session.state = "INIT"
  THEN [transition_to(session, "SUSPECTED") EXCEPT !.scam_detected = TRUE]
  ELSE session

(* A variant that leaves the session where it is.                          *)
engage_never(session) == session

engage(session) ==
  IF session.scam_detected /\ session.state = "SUSPECTED"
  THEN transition_to(session, "ENGAGING")
  ELSE session

process_transition(all, session_id, delivered, session, scam_result) ==
  process_extract(
    all, session_id, scam_result, delivered,
    engage(suspect([session EXCEPT !.scam_signals = scam_result.signals],
                   scam_result.is_scam)))

(* Step 1: detection on the history of the session, which holds the        *)
(* message itself.                                                         *)
process_detect(live, all, session_id, text, delivered, session) ==
  process_transition(
    all, session_id, delivered, session,
    analyze_message(live, text, List(session.conversation_history)))

(* The history of the payload, when it has one, takes the place of the     *)
(* history of the session.                                                 *)
merge(session, supplied, message) ==
  IF supplied.truthy
  THEN [session EXCEPT !.conversation_history =
          Append(supplied.items, message)]
  ELSE session

(* After add_message: the call raises TypeError when conversationHistory   *)
(* is a truthy value that is not a list.                                   *)
process_stored(live, all, session_id, message, supplied, delivered) ==
  IF supplied.truthy /\ supplied.type # "list"
  THEN [kind |-> "raise", exception |-> "TypeError", sessions |-> all,
        scorer |-> live]
  ELSE process_detect(live, all, session_id, message.text, delivered,
                      merge(all[session_id], supplied, message))

store(all, session_id, message) ==
  [all EXCEPT ![session_id] = add_message(all[session_id], message)]

process_message(live, all, payload, delivered) ==
  process_stored(
    live,
    store(get_or_create_session(all, payload.sessionId), payload.sessionId,
          Message(payload.message.sender, payload.message.text)),
    payload.sessionId,
    Message(payload.message.sender, payload.message.text),
    payload.conversationHistory, delivered)

Answer(code, body) == [code |-> code, body |-> body]

ErrorBody(message) == [status |-> "error", message |-> message]

(* Step 3 of _handle_ingest_message, r being what process_message did.     *)
Processed(r) ==
  [sessions |-> r.sessions, scorer |-> r.scorer,
   answer |-> IF r.kind = "raise"
              THEN Answer(500, ErrorBody("Internal server error"))
              ELSE Answer(200, r.response)]

(* _handle_ingest_message: the sessions and the answer it leaves.          *)
_handle_ingest_message(live, all, api_key, payload, delivered) ==
  IF ~validate_api_key(api_key)
  THEN [sessions |-> all, scorer |-> live,
        answer |-> Answer(401, ErrorBody("Invalid or missing API key"))]
  ELSE IF payload.type = "invalid"
  THEN [sessions |-> all, scorer |-> live,
        answer |-> Answer(400, ErrorBody("Invalid JSON payload"))]
  ELSE IF _validate_payload(payload) # ""
  THEN [sessions |-> all, scorer |-> live,
        answer |-> Answer(400, ErrorBody(_validate_payload(payload)))]
  ELSE Processed(process_message(live, all, payload, delivered))

----------------------------------------------------------------------------
(* agent-engine/persona.py : the reply generator.  A phrase is named by    *)
(* <<persona, category, k>>, the k-th phrase of the persona's list for the *)
(* category; no phrase text occurs in two lists.  random.choice is an      *)
(* argument (choice, base_reply) the caller draws.  The text variations of *)
(* add_natural_variations touch the returned text only and are left out.   *)

PERSONAS == {"cautious_bank_customer", "busy_employee", "anxious_student"}

(* persona["phrases"][category]: five phrases for "confusion" and          *)
(* "verification", four for "concern" and "link_issue", in every persona.  *)
phrases(persona, category) ==
  [k \in 1..(IF category \in {"confusion", "verification"} THEN 5 ELSE 4)
     |-> <<persona, category, k>>]

NewSessionState(persona) ==
  [persona |-> persona, stage |-> "clarification", questions_asked |-> <<>>,
   interaction_count |-> 0]

(* A variant of SessionState.get_or_create_session that draws the persona  *)
(* on every call.                                                          *)
SessionState_get_or_create_session_redrawn(all, session_id, choice) ==
  [id \in DOMAIN all \cup {session_id} |->
     IF id # session_id THEN all[id]
     ELSE IF id \in DOMAIN all THEN [all[id] EXCEPT !.persona = choice]
     ELSE NewSessionState(choice)]

SessionState_get_or_create_session(all, session_id, choice) ==
  IF session_id \in DOMAIN all THEN all
  ELSE [id \in DOMAIN all \cup {session_id} |->
          IF id = session_id THEN NewSessionState(choice) ELSE all[id]]

determine_stage(history) ==
  LET interaction_count ==
        Len(SelectSeq(history, LAMBDA msg : msg.sender = "scammer"))
  IN  IF interaction_count <= 2 THEN "clarification"
      ELSE IF interaction_count <= 4 THEN "verification"
      ELSE "elicitation"

(* Of the words analyze_signals looks for in the message none of the link  *)
(* words and "send" and "upi" of the payment words are words of            *)
(* Vocabulary.                                                             *)
analyze_signals(sigs, latest_message) ==
  LET urgency_count ==
        Len(SelectSeq(sigs, LAMBDA s :
              s \in {"urgency", "account_threat", "deadline", "immediate",
                     "account_suspension"}))
      has_link == FALSE
      has_payment_request ==
        \E i \in 1..Len(latest_message) :
          lowerToken(latest_message[i]) \in {"send", "upi"}
  IN  [urgency_level |-> IF urgency_count >= 2 THEN "high"
                         ELSE IF urgency_count = 1 THEN "medium" ELSE "low",
       concern_tone |-> urgency_count > 0 \/ "account_threat" \in Range(sigs),
       request_stronger_proof |->
         \/ \E i \in 1..Len(sigs) :
              sigs[i] \in {"repeated_pressure", "multiple_requests",
                           "repetition"}
         \/ has_payment_request,
       mention_link_issue |->
         \/ has_link
         \/ \E i \in 1..Len(sigs) :
              sigs[i] \in {"link", "url", "click_here", "website",
                           "suspicious_url"}]

(* generate_reply, lines 246-253: the phrase category.                     *)
category(stage, signal_analysis) ==
  IF signal_analysis.mention_link_issue THEN "link_issue"
  ELSE IF signal_analysis.concern_tone THEN "concern"
  ELSE IF stage = "verification" \/ signal_analysis.request_stronger_proof
    THEN "verification"
  ELSE "confusion"

(* A variant that offers every phrase of the category.                     *)
available_phrases_all(session_state, all_phrases) == all_phrases

(* generate_reply, lines 259-263: the phrases not among the last three     *)
(* asked, or all of them when none is left.                                *)
available_phrases(session_state, all_phrases) ==
  LET recent_questions == Range(LastThree(session_state.questions_asked))
      fresh == SelectSeq(all_phrases, LAMBDA p : p \notin recent_questions)
  IN  IF fresh = <<>> THEN all_phrases ELSE fresh

(* generate_reply, lines 271-274: the session after the reply.             *)
replied(all, session_id, stage, base_reply) ==
  [all EXCEPT ![session_id] =
     [@ EXCEPT !.questions_asked = Append(@, base_reply),
               !.interaction_count = @ + 1,
               !.stage = stage]]

reset_session(all, session_id) ==
  [id \in DOMAIN all \ {session_id} |-> all[id]]

----------------------------------------------------------------------------
(* The scorer applied to signal lists and history lengths.                 *)

(* A history entry whose content the scorer never reads.                   *)
AnyMessage == Message("scammer", Str(<<"why">>))

Position(sig) == CHOOSE i \in 1..Len(SignalType) : SignalType[i] = sig

(* Every variable but scorer, input_data and callers before any call.      *)
Quiet ==
  /\ signals = <<>>
  /\ conversation_history = <<>>
  /\ scoring = None
  /\ outcome = None
  /\ messages = <<>>
  /\ results = None
  /\ completed = <<>>
  /\ turns = <<>>
  /\ confidences = <<>>
  /\ sessions = <<>>
  /\ request = None
  /\ response = None
  /\ _sessions = <<>>
  /\ reply = None
  /\ sent_callbacks = {}
  /\ pending_reports = <<>>
  /\ failed_reports = {}
  /\ senders = <<>>
  /\ accepted = <<>>
  /\ callback_calls = <<>>

(* The state after the modules are loaded: no call made, no session.       *)
Init ==
  /\ scorer = reset
  /\ input_data = NotADict
  /\ callers = <<>>
  /\ Quiet

AddSignal ==
  /\ scoring = None
  /\ Len(signals) < MaxSignals
  /\ \E sig \in SignalTypes :
       /\ IF signals = <<>> THEN TRUE
          ELSE Position(signals[Len(signals)]) < Position(sig)
       /\ signals' = Append(signals, sig)
  /\ UNCHANGED <<scorer, conversation_history, scoring, besideScore>>

ExtendHistory ==
  /\ scoring = None
  /\ Len(conversation_history) < MaxHistory
  /\ conversation_history' = Append(conversation_history, AnyMessage)
  /\ UNCHANGED <<scorer, signals, scoring, besideScore>>

ScoreMessage ==
  /\ scoring = None
  /\ \E r \in {score_message(scorer, signals, conversation_history)} :
       /\ scoring' = [kind |-> "result", confidence |-> r.confidence,
                      scamDetected |-> r.scamDetected]
       /\ scorer' = r.scorer
  /\ UNCHANGED <<signals, conversation_history, besideScore>>

SpecScore == Init /\ [][AddSignal \/ ExtendHistory \/ ScoreMessage]_vars

----------------------------------------------------------------------------
(* _apply_first_message_cap applied to running scores on either side of    *)
(* every cap, for every signal list of SpecScore.                          *)

ApplyCap ==
  /\ scoring = None
  /\ signals # <<>>
  /\ \E score \in { Hundredths(n) : n \in {50, 60, 68, 78, 82, 90, 100} } :
       scoring' = [kind |-> "capped", score |-> score,
                   capped |-> _apply_first_message_cap(score, signals)]
  /\ UNCHANGED <<scorer, signals, conversation_history, besideScore>>

SpecCap == Init /\ [][AddSignal \/ ApplyCap]_vars

----------------------------------------------------------------------------
(* detect_scam applied to inputs of every shape.                           *)

DetectTexts ==
  { <<>>, <<Blank>>, <<"otp">>, <<"OTP">>, <<Blank, "otp">>, <<"kyc">>,
    <<"why">>, <<"send">>, <<"block">>, <<"kyc", "block">>, <<"upi">>,
    <<"urgent", "upi">>, <<"urgent", "block", "kyc", "upi">> }

Entries ==
  {NotAMessage, Message("scammer", NotAString), Message("user", NotAString)}
    \cup { Message(sender, Str(text)) :
             sender \in {"scammer", "user"},
             text \in { <<"otp">>, <<"kyc">>, <<"why">>, <<"send">> } }
    \cup { Message("scammer", Str(<<"urgent", "block", "kyc", "upi", "otp">>)) }

DetectInit ==
  /\ scorer = reset
  /\ input_data \in {NotADict, Dict(FALSE, NotAString, FALSE, List(<<>>))}
  /\ callers = <<>>
  /\ Quiet

SetText ==
  /\ outcome = None
  /\ input_data.type = "dict"
  /\ ~input_data.has_text
  /\ \E text \in {NotAString} \cup { Str(t) : t \in DetectTexts } :
       input_data' = [input_data EXCEPT !.has_text = TRUE, !.text = text]
  /\ UNCHANGED <<scorer, outcome, besideDetect>>

SetHistory ==
  /\ outcome = None
  /\ input_data.type = "dict"
  /\ ~input_data.has_history
  /\ \E history \in {NotAList(TRUE), NotAList(FALSE), List(<<>>)} :
       input_data' = [input_data EXCEPT !.has_history = TRUE,
                                        !.conversationHistory = history]
  /\ UNCHANGED <<scorer, outcome, besideDetect>>

AppendEntry ==
  /\ outcome = None
  /\ input_data.has_history
  /\ input_data.conversationHistory.type = "list"
  /\ Len(input_data.conversationHistory.items) < MaxEntries
  /\ \E entry \in Entries :
       input_data' =
         [input_data EXCEPT !.conversationHistory =
            List(Append(input_data.conversationHistory.items, entry))]
  /\ UNCHANGED <<scorer, outcome, besideDetect>>

DetectScam ==
  /\ outcome = None
  /\ \E r \in {detect_scam(scorer, input_data)} :
       /\ outcome' = Returned(r)
       /\ scorer' = ScorerAfter(scorer, r)
  /\ UNCHANGED <<input_data, besideDetect>>

SpecDetect ==
  DetectInit /\ [][SetText \/ SetHistory \/ AppendEntry \/ DetectScam]_vars

----------------------------------------------------------------------------
(* batch_detect applied to lists that mix inputs that pass with inputs     *)
(* that raise.                                                             *)

BatchItems ==
  { NotADict,
    Dict(FALSE, NotAString, FALSE, List(<<>>)),
    Dict(TRUE, Str(<<Blank>>), FALSE, List(<<>>)),
    Dict(TRUE, Str(<<"otp">>), FALSE, List(<<>>)),
    Dict(TRUE, Str(<<"kyc", "block">>), TRUE,
         List(<<Message("scammer", Str(<<"kyc">>))>>)),
    Dict(TRUE, Str(<<"upi">>), TRUE, List(<<NotAMessage>>)) }

AppendItem ==
  /\ results = None
  /\ Len(messages) < MaxBatch
  /\ \E item \in BatchItems : messages' = Append(messages, item)
  /\ UNCHANGED <<scorer, results, besideBatch>>

BatchDetect ==
  /\ results = None
  /\ \E r \in {batch_detect(scorer, messages)} :
       /\ results' = [kind |-> "return", list |-> r.results]
       /\ scorer' = r.scorer
  /\ UNCHANGED <<messages, besideBatch>>

SpecBatch == Init /\ [][AppendItem \/ BatchDetect]_vars

----------------------------------------------------------------------------
(* Callers of detect_scam, one after another and interleaved.  A call      *)
(* takes two steps: validation and signal detection, then scoring and the  *)
(* building of the result.                                                 *)

Callers == 1..NumCallers

Idle == [pc |-> "idle"]

CallInputs ==
  { Dict(TRUE, Str(<<Blank>>), FALSE, List(<<>>)),
    Dict(TRUE, Str(<<"otp">>), FALSE, List(<<>>)),
    Dict(TRUE, Str(<<"otp">>), TRUE,
         List(<<Message("scammer", Str(<<"otp">>))>>)),
    Dict(TRUE, Str(<<"kyc", "block">>), TRUE,
         List(<<Message("scammer", Str(<<"kyc">>)),
                Message("user", Str(<<"why">>))>>)),
    Dict(TRUE, Str(<<"upi">>), TRUE, List(<<NotAMessage>>)) }

InFlight == { c \in Callers : callers[c].pc = "scoring" }

(* An ended call: its input, what the caller saw, and how many calls had   *)
(* ended when it began.                                                    *)
Ended(input, began, r) ==
  [input |-> input, began |-> began, outcome |-> Returned(r)]

CallsInit ==
  /\ scorer = reset
  /\ input_data = NotADict
  /\ callers = [c \in Callers |-> Idle]
  /\ Quiet

CallDetect(c) ==
  /\ callers[c].pc = "idle"
  /\ Len(completed) + Cardinality(InFlight) < MaxCalls
  /\ \E input \in CallInputs :
       \E detected \in {validate_and_detect(input)} :
         IF detected.kind = "raise"
         THEN /\ completed' =
                   Append(completed, Ended(input, Len(completed), detected))
              /\ UNCHANGED callers
         ELSE /\ callers' =
                   [callers EXCEPT ![c] =
                      [pc |-> "scoring", input |-> input,
                       began |-> Len(completed), detected |-> detected]]
              /\ UNCHANGED completed
  /\ UNCHANGED <<scorer, besideCalls>>

CallScore(c) ==
  /\ callers[c].pc = "scoring"
  /\ \E r \in {score_and_build(scorer, callers[c].detected)} :
       /\ completed' =
            Append(completed, Ended(callers[c].input, callers[c].began, r))
       /\ scorer' = r.scorer
  /\ callers' = [callers EXCEPT ![c] = Idle]
  /\ UNCHANGED besideCalls

SpecCalls ==
  CallsInit /\ [][\E c \in Callers : CallDetect(c) \/ CallScore(c)]_vars

----------------------------------------------------------------------------
(* A conversation scored turn by turn as test_multi_turn and               *)
(* example_5_progressive_confidence do: every scammer message is passed to *)
(* detect_scam with all the preceding messages as conversationHistory.     *)

ScammerTexts == { <<"kyc">>, <<"urgent", "block">>, <<"upi">>, <<"otp">> }

ScammerTurn ==
  /\ Len(turns) < MaxTurns
  /\ \E text \in ScammerTexts :
       \E r \in {detect_scam(scorer,
                              Dict(TRUE, Str(text), TRUE, List(turns)))} :
         /\ r.kind = "return"
         /\ confidences' = Append(confidences, r.confidence)
         /\ scorer' = r.scorer
         /\ turns' = Append(turns, Message("scammer", Str(text)))
  /\ UNCHANGED besideTurns

UserTurn ==
  /\ turns # <<>>
  /\ Len(turns) < MaxTurns
  /\ turns[Len(turns)].sender = "scammer"
  /\ \E text \in { <<"why">> } :
       turns' = Append(turns, Message("user", Str(text)))
  /\ UNCHANGED <<scorer, confidences, besideTurns>>

SpecTurns == Init /\ [][ScammerTurn \/ UserTurn]_vars

----------------------------------------------------------------------------
(* Requests to the gateway's message endpoint.                             *)

SessionIds == {"s1", "s2"}

GatewayTexts ==
  { NotAString, Str(<<>>), Str(<<Blank>>), Str(<<"otp">>), Str(<<"upi">>) }

Payloads ==
  {EmptyPayload, NotJson,
   Payload(FALSE, "", TRUE, MessageDict(TRUE, "scammer", TRUE, Str(<<"otp">>)),
           List(<<>>)),
   Payload(TRUE, "s1", FALSE, NotAnObject, List(<<>>)),
   Payload(TRUE, "s1", TRUE, NotAnObject, List(<<>>)),
   Payload(TRUE, "s1", TRUE, MessageDict(FALSE, "", TRUE, Str(<<"otp">>)),
           List(<<>>)),
   Payload(TRUE, "s1", TRUE, MessageDict(TRUE, "scammer", FALSE, NotAString),
           List(<<>>)),
   Payload(TRUE, "s1", TRUE, MessageDict(TRUE, "scammer", TRUE, Str(<<"otp">>)),
           NotAList(TRUE)),
   Payload(TRUE, "s1", TRUE, MessageDict(TRUE, "scammer", TRUE, Str(<<"upi">>)),
           List(<<Message("scammer", Str(<<"kyc">>)),
                  Message("user", Str(<<"why">>))>>))}
    \cup { Payload(TRUE, id, TRUE, MessageDict(TRUE, "scammer", TRUE, text),
                   List(<<>>)) : id \in SessionIds, text \in GatewayTexts }
    \cup { Payload(TRUE, id, TRUE,
                   MessageDict(TRUE, "user", TRUE, Str(<<"why">>)),
                   List(<<>>)) : id \in SessionIds }

Stored(all) ==
  LET RECURSIVE Sum(_)
      Sum(ids) == IF ids = {} THEN 0
                  ELSE LET id == CHOOSE x \in ids : TRUE
                       IN  all[id].message_count + Sum(ids \ {id})
  IN  Sum(DOMAIN all)

IngestMessage ==
  /\ Stored(sessions) < MaxRequests
  /\ \E api_key \in {"", "test-key-123"}, payload \in Payloads,
        delivered \in BOOLEAN :
       \E r \in {_handle_ingest_message(scorer, sessions, api_key, payload,
                                         delivered)} :
         /\ request' = [kind |-> "request", api_key |-> api_key,
                        payload |-> payload]
         /\ response' = r.answer
         /\ sessions' = r.sessions
         /\ scorer' = r.scorer
  /\ UNCHANGED besideGateway

SpecGateway == Init /\ [][IngestMessage]_vars

----------------------------------------------------------------------------
(* Replies generated for several sessions in any order.                    *)

MaxReplies == 3

PersonaSessionIds == {"default", "s1"}

(* The arguments of a reply: the latest message, the history, the signals. *)
ReplyInputs ==
  { [latest_message |-> <<"urgent">>,
     conversation_history |-> <<Message("scammer", Str(<<"urgent">>))>>,
     signals |-> <<"urgency">>] }

RECURSIVE Replies(_, _)
Replies(all, ids) ==
  IF ids = {} THEN 0
  ELSE LET id == CHOOSE id \in ids : TRUE
       IN  all[id].interaction_count + Replies(all, ids \ {id})

(* generate_reply for one session and one input, from the session map all  *)
(* that get_or_create_session left; safe tells that generate_reply_safe    *)
(* made the call and wraps the text as {"reply": text}.                    *)
Reply(all, session_id, input, safe) ==
  \E stage \in {determine_stage(input.conversation_history)} :
    \E base_reply \in
         Range(available_phrases(
                 all[session_id],
                 phrases(all[session_id].persona,
                         category(stage,
                                  analyze_signals(input.signals,
                                                  input.latest_message))))) :
      /\ _sessions' = replied(all, session_id, stage, base_reply)
      /\ reply' = [session_id |-> session_id,
                   persona |-> all[session_id].persona,
                   base_reply |-> base_reply,
                   safe |-> safe]

GenerateReply ==
  /\ Replies(_sessions, DOMAIN _sessions) < MaxReplies
  /\ \E session_id \in PersonaSessionIds, input \in ReplyInputs,
        choice \in PERSONAS :
       Reply(SessionState_get_or_create_session(_sessions, session_id, choice),
             session_id, input, FALSE)
  /\ UNCHANGED <<scorer, besidePersona>>

(* generate_reply_safe called without a history, which it takes as empty;  *)
(* no phrase fails validate_reply_safety.                                  *)
GenerateReplySafe ==
  /\ Replies(_sessions, DOMAIN _sessions) < MaxReplies
  /\ \E session_id \in PersonaSessionIds, choice \in PERSONAS :
       Reply(SessionState_get_or_create_session(_sessions, session_id, choice),
             session_id,
             [latest_message |-> <<"block">>,
              conversation_history |-> <<>>,
              signals |-> <<"account_threat">>],
             TRUE)
  /\ UNCHANGED <<scorer, besidePersona>>

GetSessionInfo ==
  /\ \E session_id \in PersonaSessionIds, choice \in PERSONAS :
       _sessions' =
         SessionState_get_or_create_session(_sessions, session_id, choice)
  /\ UNCHANGED <<scorer, reply, besidePersona>>

ResetSession ==
  /\ \E session_id \in PersonaSessionIds :
       _sessions' = reset_session(_sessions, session_id)
  /\ UNCHANGED <<scorer, reply, besidePersona>>

SpecPersona ==
  Init /\ [][GenerateReply \/ GenerateReplySafe \/ GetSessionInfo
               \/ ResetSession]_vars

----------------------------------------------------------------------------
(* Replies generated one after the other for one session, with inputs that *)
(* lead to different phrase categories.                                    *)

MaxSessionReplies == 4

(* Arguments that lead to the categories "concern" and "confusion".        *)
PhraseInputs ==
  { [latest_message |-> <<"urgent">>,
     conversation_history |-> <<Message("scammer", Str(<<"urgent">>))>>,
     signals |-> <<"urgency">>],
    [latest_message |-> <<"why">>,
     conversation_history |-> <<Message("scammer", Str(<<"why">>))>>,
     signals |-> <<>>] }

GenerateNextReply ==
  /\ Replies(_sessions, DOMAIN _sessions) < MaxSessionReplies
  /\ \E input \in PhraseInputs, choice \in PERSONAS :
       Reply(SessionState_get_or_create_session(_sessions, "s1", choice),
             "s1", input, FALSE)
  /\ UNCHANGED <<scorer, besidePersona>>

SpecPhrases == Init /\ [][GenerateNextReply]_vars

----------------------------------------------------------------------------

(* intelligence-engine/guvi_callback.py : GUVICallback.send_final_result   *)
(* called by request threads that run at the same time.  A call is taken   *)
(* step by step: the check of sent_callbacks, each POST, the update that   *)
(* follows an accepted POST, the bookkeeping that follows the last failed  *)
(* one.  The endpoint accepts a POST (status 200) or not (another status,  *)
(* a timeout).                                                             *)

MaxSenders == 2

MAX_RETRIES == 3

(* The keys of pending_reports, a dict: in the order of their insertion.   *)
(* Line 117, pending_reports[session_id] = payload.                        *)
with(pending, session_id) ==
  IF \E i \in 1..Len(pending) : pending[i] = session_id
  THEN pending
  ELSE Append(pending, session_id)

(* Lines 98-99 and 151, del pending_reports[session_id].                   *)
without(pending, session_id) ==
  SelectSeq(pending, LAMBDA key : key # session_id)

Senders == 1..Len(senders)

(* Lines 61-64: a call begins and checks sent_callbacks.                   *)
SendFinalResult ==
  /\ Len(senders) < MaxSenders
  /\ \E session_id \in SessionIds :
       senders' =
         Append(senders,
                IF session_id \in sent_callbacks
                THEN [pc |-> "returned", session_id |-> session_id,
                      value |-> TRUE]
                ELSE [pc |-> "post", session_id |-> session_id,
                      attempt |-> 1])
  /\ UNCHANGED <<scorer, sent_callbacks, pending_reports, failed_reports,
                 accepted, callback_calls, besideCallback>>

(* Lines 84-112: one attempt of the retry loop.                            *)
PostCallback(t) ==
  /\ senders[t].pc = "post"
  /\ \E status_ok \in BOOLEAN :
       IF status_ok
       THEN /\ accepted' = Append(accepted, senders[t].session_id)
            /\ senders' = [senders EXCEPT ![t] =
                             [pc |-> "accepted",
                              session_id |-> senders[t].session_id]]
       ELSE /\ UNCHANGED accepted
            /\ senders' = [senders EXCEPT ![t] =
                             IF senders[t].attempt < MAX_RETRIES
                             THEN [@ EXCEPT !.attempt = @ + 1]
                             ELSE [pc |-> "failed",
                                   session_id |-> senders[t].session_id]]
  /\ UNCHANGED <<scorer, sent_callbacks, pending_reports, failed_reports,
                 callback_calls, besideCallback>>

(* Lines 95-101: after an accepted POST.                                   *)
AddSentCallback(t) ==
  /\ senders[t].pc = "accepted"
  /\ sent_callbacks' = sent_callbacks \cup {senders[t].session_id}
  /\ pending_reports' = without(pending_reports, senders[t].session_id)
  /\ senders' = [senders EXCEPT ![t] =
                   [pc |-> "returned", session_id |-> senders[t].session_id,
                    value |-> TRUE]]
  /\ UNCHANGED <<scorer, failed_reports, accepted, callback_calls,
                 besideCallback>>

(* Lines 114-119: after the last failed attempt.                           *)
PersistFailedReport(t) ==
  /\ senders[t].pc = "failed"
  /\ failed_reports' = failed_reports \cup {senders[t].session_id}
  /\ pending_reports' = with(pending_reports, senders[t].session_id)
  /\ senders' = [senders EXCEPT ![t] =
                   [pc |-> "returned", session_id |-> senders[t].session_id,
                    value |-> FALSE]]
  /\ UNCHANGED <<scorer, sent_callbacks, accepted, callback_calls,
                 besideCallback>>

SpecCallback ==
  Init /\ [][\/ SendFinalResult
             \/ \E t \in Senders : PostCallback(t)
             \/ \E t \in Senders : AddSentCallback(t)
             \/ \E t \in Senders : PersistFailedReport(t)]_vars

----------------------------------------------------------------------------
(* intelligence-engine/guvi_callback.py : send_final_result and            *)
(* retry_pending_reports called one after the other.  What the endpoint    *)
(* answers to a POST is an input: a response with a status code, or a      *)
(* requests.exceptions.RequestException.                                   *)

MaxCallbackCalls == 3

HttpResponse(status_code) ==
  [kind |-> "response", status_code |-> status_code]

RequestException ==
  [kind |-> "raise", exception |-> "RequestException"]

Responses ==
  { HttpResponse(code) : code \in {200, 201, 202, 500} }
    \cup {RequestException}

(* Lines 93 and 148: response.status_code in [200, 201, 202], with an      *)
(* exception caught at lines 105 and 153.                                  *)
is_accepted(answer) ==
  /\ answer.kind = "response"
  /\ answer.status_code \in {200, 201, 202}

Post(session_id, answer) ==
  [session_id |-> session_id, accepted |-> is_accepted(answer)]

(* A variant that goes on posting after an accepted attempt.               *)
retry_loop_through(session_id, answers, attempt) ==
  [i \in attempt..MAX_RETRIES |-> Post(session_id, answers[i])]

(* Lines 84-112: the POSTs of the retry loop from one attempt on, given    *)
(* the answer to each attempt.                                             *)
RECURSIVE retry_loop(_, _, _)
retry_loop(session_id, answers, attempt) ==
  IF attempt > MAX_RETRIES THEN <<>>
  ELSE IF is_accepted(answers[attempt])
       THEN <<Post(session_id, answers[attempt])>>
       ELSE <<Post(session_id, answers[attempt])>>
              \o retry_loop(session_id, answers, attempt + 1)

(* A variant that leaves an accepted session in pending_reports.           *)
sent_or_pending_kept(self, session_id, posts) ==
  IF posts[Len(posts)].accepted
  THEN [sent_callbacks |-> self.sent_callbacks \cup {session_id},
        pending_reports |-> self.pending_reports,
        failed_reports |-> self.failed_reports,
        posts |-> posts, value |-> TRUE]
  ELSE [sent_callbacks |-> self.sent_callbacks,
        pending_reports |-> with(self.pending_reports, session_id),
        failed_reports |-> self.failed_reports \cup {session_id},
        posts |-> posts, value |-> FALSE]

(* Lines 93-101 and 114-119: what follows the retry loop, after an         *)
(* accepted POST and after the last failed one.                            *)
sent_or_pending(self, session_id, posts) ==
  IF posts[Len(posts)].accepted
  THEN [sent_callbacks |-> self.sent_callbacks \cup {session_id},
        pending_reports |-> without(self.pending_reports, session_id),
        failed_reports |-> self.failed_reports,
        posts |-> posts, value |-> TRUE]
  ELSE [sent_callbacks |-> self.sent_callbacks,
        pending_reports |-> with(self.pending_reports, session_id),
        failed_reports |-> self.failed_reports \cup {session_id},
        posts |-> posts, value |-> FALSE]

(* A variant that posts again for a session whose callback was sent.       *)
send_final_result_unguarded(self, session_id, answers) ==
  sent_or_pending(self, session_id, retry_loop(session_id, answers, 1))

(* Lines 61-119: send_final_result as a whole, on the fields of the        *)
(* GUVICallback: the fields after the call, the POSTs issued and the       *)
(* value returned.                                                         *)
send_final_result(self, session_id, answers) ==
  IF session_id \in self.sent_callbacks
  THEN [sent_callbacks |-> self.sent_callbacks,
        pending_reports |-> self.pending_reports,
        failed_reports |-> self.failed_reports,
        posts |-> <<>>, value |-> TRUE]
  ELSE sent_or_pending(self, session_id, retry_loop(session_id, answers, 1))

(* Lines 139-154: the loop of retry_pending_reports over the snapshot      *)
(* list(self.pending_reports.items()), from its i-th entry on.             *)
RECURSIVE retry_from(_, _, _, _)
retry_from(self, snapshot, answers, i) ==
  IF i > Len(snapshot) THEN self
  ELSE LET session_id == snapshot[i]
           post == Post(session_id, answers[i])
       IN  retry_from(
             IF post.accepted
             THEN [sent_callbacks |-> self.sent_callbacks \cup {session_id},
                   pending_reports |->
                     without(self.pending_reports, session_id),
                   failed_reports |-> self.failed_reports,
                   posts |-> Append(self.posts, post),
                   value |-> self.value + 1]
             ELSE [self EXCEPT !.posts = Append(@, post)],
             snapshot, answers, i + 1)

(* Lines 131-156.                                                          *)
retry_pending_reports(self, answers) ==
  retry_from([sent_callbacks |-> self.sent_callbacks,
              pending_reports |-> self.pending_reports,
              failed_reports |-> self.failed_reports,
              posts |-> <<>>, value |-> 0],
             self.pending_reports, answers, 1)

GUVICallback ==
  [sent_callbacks |-> sent_callbacks, pending_reports |-> pending_reports,
   failed_reports |-> failed_reports]

RECURSIVE AcceptedIn(_)
AcceptedIn(posts) ==
  IF posts = <<>> THEN <<>>
  ELSE (IF posts[1].accepted THEN <<posts[1].session_id>> ELSE <<>>)
         \o AcceptedIn(Tail(posts))

Ends(call, session_id, after) ==
  /\ sent_callbacks' = after.sent_callbacks
  /\ pending_reports' = after.pending_reports
  /\ failed_reports' = after.failed_reports
  /\ accepted' = accepted \o AcceptedIn(after.posts)
  /\ callback_calls' =
       Append(callback_calls,
              [call |-> call, session_id |-> session_id,
               posts |-> after.posts, value |-> after.value])

CallSendFinalResult ==
  /\ Len(callback_calls) < MaxCallbackCalls
  /\ \E session_id \in SessionIds, answers \in [1..MAX_RETRIES -> Responses] :
       \E after \in {send_final_result(GUVICallback, session_id, answers)} :
         Ends("send_final_result", session_id, after)
  /\ UNCHANGED <<scorer, senders, besideCallback>>

CallRetryPendingReports ==
  /\ Len(callback_calls) < MaxCallbackCalls
  /\ \E answers \in [1..Len(pending_reports) -> Responses] :
       \E after \in {retry_pending_reports(GUVICallback, answers)} :
         Ends("retry_pending_reports", "", after)
  /\ UNCHANGED <<scorer, senders, besideCallback>>

SpecReports ==
  Init /\ [][CallSendFinalResult \/ CallRetryPendingReports]_vars

----------------------------------------------------------------------------
(* intelligence-engine/reporter.py and the payload of guvi_callback.py:    *)
(* from what the extractor stored for a session to the body of the POST.   *)

(* dict.get(key, default) on a record.                                     *)
Get(d, key, default) == IF key \in DOMAIN d THEN d[key] ELSE default

(* extractor.py lines 52-57: session_intelligence[session_id] after        *)
(* analyze_conversation (the behaviour summary is left out).               *)
session_intelligence(history) ==
  LET texts == [i \in 1..Len(history) |-> history[i].text.tokens]
  IN  [entities |-> _extract_entities(texts),
       keywords |-> _extract_keywords(texts),
       message_count |-> Len(history)]

generate_final_report(intel) ==
  [bank_accounts |-> Get(intel.entities, "bank_accounts", {}),
   upi_ids |-> Get(intel.entities, "upi_ids", {}),
   urls |-> Get(intel.entities, "urls", {}),
   phone_numbers |-> Get(intel.entities, "phone_numbers", {}),
   ifsc_codes |-> Get(intel.entities, "ifsc_codes", {}),
   keywords |-> Get(intel, "keywords", {})]

(* send_callback, lines 100-106.                                           *)
extracted_intelligence(report) ==
  [bank_accounts |-> Get(report, "bank_accounts", {}),
   upi_ids |-> Get(report, "upi_ids", {}),
   urls |-> Get(report, "urls", {}),
   phone_numbers |-> Get(report, "phone_numbers", {}),
   keywords |-> Get(report, "keywords", {})]

(* send_final_result, lines 67-79 (the agent notes are left out).          *)
callback_payload(session_id, scam_detected, total_messages, intelligence) ==
  [sessionId |-> session_id,
   scamDetected |-> scam_detected,
   totalMessagesExchanged |-> total_messages,
   bankAccounts |-> Get(intelligence, "bank_accounts", {}),
   upiIds |-> Get(intelligence, "upi_ids", {}),
   phishingLinks |-> Get(intelligence, "urls", {}),
   phoneNumbers |-> Get(intelligence, "phone_numbers", {}),
   suspiciousKeywords |-> Get(intelligence, "keywords", {})]

(* router._trigger_final_callback with reporter.send_callback: the payload *)
(* posted for a session.                                                   *)
final_payload(session_id, session) ==
  callback_payload(
    session_id, session.scam_detected, session.message_count,
    extracted_intelligence(
      generate_final_report(
        session_intelligence(session.conversation_history))))

----------------------------------------------------------------------------
(* Sessions through the router, message after message, with the callback   *)
(* of GUVICallback behind it.                                              *)

MaxMessages == 3

LifecycleTexts ==
  { Str(<<"why">>), Str(<<"otp">>), Str(<<"x@ybl">>),
    Str(<<"www.a.zz", "9876543210">>) }

LifecyclePayloads ==
  { Payload(TRUE, id, TRUE, MessageDict(TRUE, "scammer", TRUE, text),
            List(<<>>)) : id \in SessionIds, text \in LifecycleTexts }

(* What the endpoint answers to each attempt of a callback.                *)
Endpoint == [1..MAX_RETRIES -> {HttpResponse(200), HttpResponse(500)}]

(* router.py lines 69-75, 104-107 and 259: the state of the session before *)
(* the call and after each place where process_message may call           *)
(* transition_to.                                                          *)
session_states(live, all, payload, delivered) ==
  LET session_id == payload.sessionId
      message == Message(payload.message.sender, payload.message.text)
      stored ==
        store(get_or_create_session(all, session_id), session_id, message)
      session ==
        merge(stored[session_id], payload.conversationHistory, message)
      scam_result ==
        analyze_message(live, message.text,
                        List(session.conversation_history))
      suspected == suspect(session, scam_result.is_scam)
      engaging == engage(suspected)
      due == /\ engaging.scam_detected
             /\ _extract_intelligence(engaging).complete
      ready == IF due THEN transition_to(engaging, "INTEL_COMPLETE")
               ELSE engaging
      reported == IF due THEN _trigger_final_callback(ready, delivered)
                  ELSE ready
  IN  <<session.state, suspected.state, engaging.state, ready.state,
        reported.state>>

ProcessMessage ==
  /\ Stored(sessions) < MaxMessages
  /\ \E payload \in LifecyclePayloads, answers \in Endpoint :
       \E sent \in {send_final_result(GUVICallback, payload.sessionId,
                                      answers)} :
         \E r \in {process_message(scorer, sessions, payload, sent.value)} :
           LET session_id == payload.sessionId
               session == r.sessions[session_id]
               due == r.callback
           IN  /\ sessions' = r.sessions
               /\ scorer' = r.scorer
               /\ request' = [kind |-> "request", api_key |-> "test-key-123",
                              payload |-> payload]
               /\ response' =
                    [scamDetected |-> r.response.scamDetected,
                     collection_complete |-> r.response.collection_complete,
                     entities |->
                       session_intelligence(
                         session.conversation_history).entities,
                     states |-> session_states(scorer, sessions, payload,
                                               sent.value),
                     callback |->
                       IF due
                       THEN [kind |-> "callback",
                             payload |-> final_payload(session_id, session),
                             posts |-> sent.posts, value |-> sent.value]
                       ELSE None]
               /\ IF due
                  THEN Ends("send_final_result", session_id, sent)
                  ELSE UNCHANGED <<sent_callbacks, pending_reports,
                                   failed_reports, accepted, callback_calls>>
  /\ UNCHANGED <<scoreVars, detectVars, batchVars, callVars, turnVars,
                 personaVars, senders>>

SpecLifecycle == Init /\ [][ProcessMessage]_vars

----------------------------------------------------------------------------
(* Properties of the scorer.                                               *)

Scored == scoring.kind = "result"

HasCritical(sigs) ==
  \E i \in 1..Len(sigs) :
    sigs[i] \in {"otp_request", "pin_request", "card_details_request"}

HasPressure(sigs) ==
  \E i \in 1..Len(sigs) :
    get_signal_category(sigs[i]) \in {URGENCY_PRESSURE, ACCOUNT_AUTHORITY}

(* C1: in every result of score_message, scamDetected is true if and only  *)
(* if the confidence returned in that result (rounded to two decimals) is  *)
(* at least 0.70.                                                          *)
C1_DetectedIffReportedConfidence ==
  Scored => (scoring.scamDetected <=> scoring.confidence >= 70)

(* C2: for every signal list and every non-empty history, the confidence   *)
(* is not lower than the confidence of the same signals with an empty      *)
(* history.                                                                *)
C2_HistoryNeverLowersConfidence ==
  (Scored /\ conversation_history # <<>>)
    => scoring.confidence >= score_message(scorer, signals, <<>>).confidence

(* C3: with an empty history, a signal list holding a critical signal and  *)
(* no pressure signal gets a confidence within [0.70, 0.80] and            *)
(* scamDetected = true.                                                    *)
C3_CriticalAloneFirstMessage ==
  (Scored /\ conversation_history = <<>>
     /\ HasCritical(signals) /\ ~HasPressure(signals))
    => /\ scoring.confidence >= 70
       /\ scoring.confidence <= 80
       /\ scoring.scamDetected

(* A lone one-time-code request on a first message, lifted to the floor,   *)
(* and a critical list on a first message lowered to the ceiling.          *)
C3_Witness ==
  /\ Scored
  /\ conversation_history = <<>>
  /\ signals = <<"otp_request">>
  /\ _calculate_base_score(signals) < Hundredths(70)
  /\ scoring.confidence = 70
  /\ scoring.scamDetected

(* C4: the confidence is within [0, 1] for every signal list and history;  *)
(* for the empty signal list it is 0.0 and scamDetected is false whatever  *)
(* the history.                                                            *)
C4_ConfidenceBounded ==
  Scored =>
    /\ scoring.confidence >= 0
    /\ scoring.confidence <= 100
    /\ signals = <<>> => (scoring.confidence = 0 /\ ~scoring.scamDetected)

(* A scored list whose chain of multipliers passes 1.0 and is clamped.     *)
C4_Witness ==
  /\ Scored
  /\ signals # <<>>
  /\ conversation_history # <<>>
  /\ unclamped_confidence(signals, conversation_history, FALSE) > Scale
  /\ scoring.confidence = 100

----------------------------------------------------------------------------
(* Properties of detect_scam.                                              *)

Called == outcome # None

(* The text of the input is present, a string, and not blank.              *)
ValidText(input) ==
  /\ input.type = "dict"
  /\ input.has_text
  /\ input.text.type = "str"
  /\ strip(input.text.tokens) # <<>>

(* conversationHistory is present and is not a list of message objects.    *)
MalformedHistory(input) ==
  /\ input.type = "dict"
  /\ input.has_history
  /\ \/ input.conversationHistory.type # "list"
     \/ \E i \in 1..Len(input.conversationHistory.items) :
          input.conversationHistory.items[i].type # "dict"

(* The input with a history that is not a list taken as absent and every   *)
(* entry that is not a message object dropped.                             *)
WellFormed(input) ==
  [input EXCEPT !.conversationHistory =
     IF @.type # "list" THEN List(<<>>)
     ELSE List(SelectSeq(@.items, LAMBDA entry : entry.type = "dict"))]

(* C5: when conversationHistory is present but is not a list of message    *)
(* objects, detect_scam does not fail: it returns the result it returns    *)
(* with the history (or the offending entries) absent.                     *)
C5_MalformedHistoryNeverFails ==
  (Called /\ ValidText(input_data) /\ MalformedHistory(input_data))
    => /\ outcome.kind = "return"
       /\ outcome = Returned(detect_scam(scorer, WellFormed(input_data)))

(* C7: detect_scam raises ValueError, and returns no result, exactly when   *)
(* the input is not a map or its text is missing, not a string or blank;   *)
(* for every other input it returns a result.                              *)
C7_ValueErrorIffInvalidText ==
  Called =>
    IF ValidText(input_data) THEN outcome.kind = "return"
    ELSE outcome.kind = "raise" /\ outcome.exception = "ValueError"

----------------------------------------------------------------------------
(* Properties of batch_detect.                                             *)

BatchDone == results # None

Fails(input) == detect_scam(reset, input).kind = "raise"

(* C8: for every input list the list returned has the same length; entry i *)
(* is what detect_scam returns for message i when that call returns, and   *)
(* the error entry (the error text, scamDetected false, confidence 0, no   *)
(* signals) when it raises, whatever the other messages are.               *)
C8_BatchPositionalFaultIsolating ==
  BatchDone =>
    /\ Len(results.list) = Len(messages)
    /\ \A i \in 1..Len(messages) :
         LET alone == detect_scam(reset, messages[i])
         IN  IF alone.kind = "return" THEN results.list[i] = Returned(alone)
             ELSE /\ results.list[i].kind = "error"
                  /\ results.list[i].error = alone.message
                  /\ ~results.list[i].scamDetected
                  /\ results.list[i].confidence = 0
                  /\ results.list[i].signals = <<>>

(* A batch whose first message raises and whose later messages are scored, *)
(* one of them as a scam.                                                  *)
C8_Witness ==
  /\ BatchDone
  /\ Len(messages) = 3
  /\ Fails(messages[1])
  /\ ~Fails(messages[2])
  /\ Fails(messages[3]) \/ results.list[3].scamDetected
  /\ results.list[1].kind = "error"
  /\ results.list[2].kind = "return"
  /\ results.list[2].scamDetected

----------------------------------------------------------------------------
(* Properties of detect_scam across calls.                                 *)

(* C10: two calls of detect_scam with the same input end the same way,     *)
(* whatever calls ended before either of them and whatever calls were in   *)
(* progress at the same time.                                              *)
C10_SameInputSameOutcome ==
  \A i, j \in 1..Len(completed) :
    completed[i].input = completed[j].input
      => completed[i].outcome = completed[j].outcome

(* A first message is scored, then a call with another input runs while    *)
(* the same first message is scored again.                                 *)
C10_Witness ==
  /\ Len(completed) = 3
  /\ completed[1].input = completed[3].input
  /\ completed[2].input # completed[1].input
  /\ completed[3].began = 1
  /\ completed[2].began = 1
  /\ completed[1].outcome.kind = "return"
  /\ completed[2].outcome.kind = "return"
  /\ completed[1].input.conversationHistory.items = <<>>
  /\ completed[3].outcome.scamDetected

----------------------------------------------------------------------------
(* Properties of a conversation scored turn by turn.                       *)

(* C9: the confidence reported for a scored turn is never lower than the   *)
(* confidence reported for the scored turn before it.                      *)
C9_ConfidenceNeverDecreases ==
  \A i \in 1..(Len(confidences) - 1) : confidences[i] <= confidences[i + 1]

----------------------------------------------------------------------------
(* Properties of the gateway.                                              *)

Handled == request.kind = "request"

(* The request passes authentication and _validate_payload.                *)
Admitted ==
  /\ Handled
  /\ validate_api_key(request.api_key)
  /\ request.payload.type = "dict"
  /\ _validate_payload(request.payload) = ""

BlankOrNotAString(text) == text.type # "str" \/ strip(text.tokens) = <<>>

(* C6: a request whose message text is blank or is not a string is never   *)
(* answered with status "success" and a verdict of no scam.                *)
C6_BlankTextRejected ==
  (Admitted /\ BlankOrNotAString(request.payload.message.text))
    => ~(response.body.status = "success" /\ ~response.body.scamDetected)

----------------------------------------------------------------------------
(* Properties of the rule matcher, read off the result of detect_scam,     *)
(* which hands on the signals and the explanations of detect_signals       *)
(* unchanged.                                                              *)

(* The place of a signal's rule group in the order in which detect_signals *)
(* goes through the groups.                                                *)
GroupRank(sig) ==
  CASE get_signal_category(sig) = URGENCY_PRESSURE -> 1
    [] get_signal_category(sig) = ACCOUNT_AUTHORITY -> 2
    [] get_signal_category(sig) = PAYMENT -> 3
    [] get_signal_category(sig) = PHISHING -> 4
    [] OTHER -> 5

(* C11: the signals returned hold no signal twice, are listed group by     *)
(* group (urgency, account/authority, payment, phishing, conversation),    *)
(* and the explanation map has exactly one entry per signal returned.      *)
C11_SignalsDistinctOrderedExplained ==
  (Called /\ outcome.kind = "return") =>
    /\ \A i, j \in 1..Len(outcome.signals) :
         i < j => /\ outcome.signals[i] # outcome.signals[j]
                  /\ GroupRank(outcome.signals[i])
                       <= GroupRank(outcome.signals[j])
    /\ Len(outcome.explanation) = Len(outcome.signals)
    /\ { outcome.explanation[k][1] : k \in 1..Len(outcome.explanation) }
         = Range(outcome.signals)

(* A repeated one-time-code request: a payment signal followed by two      *)
(* conversation signals, each explained.                                   *)
C11_Witness ==
  /\ Called
  /\ outcome.kind = "return"
  /\ outcome.signals = <<"otp_request", "repetition", "copy_paste">>
  /\ Len(outcome.explanation) = 3

----------------------------------------------------------------------------
(* Properties of the reply generator.                                      *)

(* C12: every reply generated for a session since the session was created  *)
(* (or last reset) took its phrase from the one persona drawn when the     *)
(* session was created, whatever was generated for other sessions in       *)
(* between.                                                                *)
C12_PersonaPersists ==
  \A id \in DOMAIN _sessions :
    \A k \in 1..Len(_sessions[id].questions_asked) :
      _sessions[id].questions_asked[k][1] = _sessions[id].persona

(* Two replies for one session, the later one generated last, and a reply  *)
(* for another session that has another persona.                           *)
C12_Witness ==
  /\ DOMAIN _sessions = {"default", "s1"}
  /\ _sessions["s1"].interaction_count = 2
  /\ _sessions["default"].interaction_count = 1
  /\ _sessions["s1"].persona # _sessions["default"].persona
  /\ reply # None
  /\ reply.session_id = "s1"
  /\ reply.persona = _sessions["s1"].persona

----------------------------------------------------------------------------
(* Properties of the steps of calculate_confidence.                        *)

(* C13: the running score is multiplied by 1.3 if and only if the signals  *)
(* hold otp_request, pin_request or card_details_request.                  *)
C13_SeverityBoostIffCritical ==
  (Scored /\ signals # <<>>) =>
    with_severity(signals)
      = IF HasCritical(signals) THEN (with_diversity(signals) * 13) \div 10
        ELSE with_diversity(signals)

(* The signals hold a signal of the payment category together with an      *)
(* account-threat or an authority-impersonation signal.                    *)
PaymentWithThreatOrAuthority(sigs) ==
  /\ \E i \in 1..Len(sigs) : get_signal_category(sigs[i]) = PAYMENT
  /\ \E i \in 1..Len(sigs) :
       sigs[i] \in {"account_threat", "account_suspension", "kyc_failure",
                    "bank_impersonation", "authority_impersonation",
                    "government_impersonation"}

(* C14: the running score is multiplied by 1.25 if and only if the signals *)
(* hold a signal of the payment category together with an account-threat   *)
(* or an authority-impersonation signal.                                   *)
C14_ComboBoostIffPaymentWithThreat ==
  (Scored /\ signals # <<>>) =>
    with_combo(signals)
      = IF PaymentWithThreatOrAuthority(signals)
        THEN (with_severity(signals) * 5) \div 4
        ELSE with_severity(signals)

(* The table of first-message caps, a payment signal being any signal of   *)
(* the payment category and a pressure signal any signal of the urgency or *)
(* the account/authority category.                                         *)
TableCap(score, sigs) ==
  LET has_payment_category ==
        \E i \in 1..Len(sigs) : get_signal_category(sigs[i]) = PAYMENT
  IN  IF HasCritical(sigs) /\ HasPressure(sigs) THEN Min(score, Hundredths(95))
      ELSE IF HasCritical(sigs)
        THEN Max(Min(score, Hundredths(80)), Hundredths(70))
      ELSE IF has_payment_category /\ HasPressure(sigs)
        THEN Min(score, Hundredths(85))
      ELSE IF Cardinality(_get_unique_categories(sigs)) >= 3
        THEN Min(score, Hundredths(75))
      ELSE IF Len(sigs) >= 3 THEN Min(score, Hundredths(65))
      ELSE Min(score, Hundredths(55))

TurnMultiplier(sigs, history) ==
  Min(10 + Min(Len(history), 3)
         + (IF \E i \in 1..Len(sigs) :
                 get_signal_category(sigs[i]) = CONVERSATION
            THEN 1 ELSE 0),
      14)

(* C16: with a non-empty history the running score is multiplied by        *)
(* exactly that multiplier, and by nothing with an empty history; the      *)
(* multiplier never falls when the history grows and is the same for every *)
(* history of three or more messages.                                      *)
C16_TurnMultiplierExact ==
  (Scored /\ signals # <<>>) =>
    /\ with_turns(signals, conversation_history)
         = IF conversation_history = <<>> THEN with_combo(signals)
           ELSE (with_combo(signals) \div 10)
                  * TurnMultiplier(signals, conversation_history)
    /\ \A n \in 1..Len(conversation_history) :
         LET shorter == SubSeq(conversation_history, 1, n)
         IN  /\ _calculate_turn_multiplier(signals, shorter)
                  <= _calculate_turn_multiplier(signals, conversation_history)
             /\ n >= 3 =>
                  _calculate_turn_multiplier(signals, shorter)
                    = _calculate_turn_multiplier(signals, conversation_history)

----------------------------------------------------------------------------
(* Properties of the conversation detectors, read off the signals that     *)
(* detect_scam returns for a text and a truthy history.                    *)

(* detect_scam returned, having run the conversation detectors.            *)
DetectedWithHistory ==
  /\ Called
  /\ outcome.kind = "return"
  /\ input_data.has_history
  /\ input_data.conversationHistory.type = "list"
  /\ input_data.conversationHistory.items # <<>>

(* The texts of the scammer-sent messages, the current one last.           *)
ScammerMessages(input) ==
  LET from_scammer ==
        SelectSeq(input.conversationHistory.items,
                  LAMBDA msg : msg.sender = "scammer")
  IN  Append([i \in 1..Len(from_scammer) |-> from_scammer[i].text.tokens],
             input.text.tokens)

(* C17: the repetition signal is returned exactly when some two of the     *)
(* last three scammer-sent messages, the current one included, have a      *)
(* word-set similarity of at least 0.80.                                   *)
C17_RepetitionIffSimilarPair ==
  DetectedWithHistory =>
    ( "repetition" \in Range(outcome.signals)
      <=> LET recent == LastThree(ScammerMessages(input_data))
          IN  \E i, j \in 1..Len(recent) :
                /\ i < j
                /\ 5 * _text_similarity(recent[i], recent[j])[1]
                     >= 4 * _text_similarity(recent[i], recent[j])[2] )

(* The conversation: the history followed by the message being scored,     *)
(* which the scammer sent.                                                 *)
Conversation(input) ==
  Append(input.conversationHistory.items, Message("scammer", input.text))

(* Entry i is a counterpart message holding a question indicator and entry *)
(* i + 1 a scammer message that holds a demand keyword and none of the     *)
(* question's first five words.                                            *)
QuestionIgnoredAt(conversation, i) ==
  /\ conversation[i].sender = "user"
  /\ conversation[i].text.type = "str"
  /\ conversation[i + 1].sender = "scammer"
  /\ conversation[i + 1].text.type = "str"
  /\ LET question == lower(conversation[i].text.tokens)
         answer == lower(conversation[i + 1].text.tokens)
     IN  /\ Range(question) \cap question_indicators # {}
         /\ Range(answer) \cap demand_indicators # {}
         /\ Range(FirstFive(split(question))) \cap Range(answer) = {}

(* C18: the ignoring-questions signal is returned whenever a question is   *)
(* ignored anywhere in the conversation, the pair formed by the last       *)
(* history entry and the message being scored included.                    *)
C18_IgnoredQuestionDetected ==
  DetectedWithHistory =>
    \A i \in 1..Len(input_data.conversationHistory.items) :
      QuestionIgnoredAt(Conversation(input_data), i)
        => "ignoring_questions" \in Range(outcome.signals)

----------------------------------------------------------------------------
(* Properties of the router.                                               *)

(* The turns of the session that precede the message of the request.       *)
Preceding ==
  LET history == sessions[request.payload.sessionId].conversation_history
  IN  SubSeq(history, 1, Len(history) - 1)

(* C19: the verdict the router answers with is that of the detector on the *)
(* message and the turns that precede it, the message itself left out; a   *)
(* first message is scored with an empty history.                          *)
C19_DetectorGetsPrecedingTurns ==
  (Admitted /\ response.code = 200) =>
    \E alone \in {analyze_message(reset, request.payload.message.text,
                                  List(Preceding))} :
      /\ response.body.signals = alone.signals
      /\ response.body.confidence = alone.confidence
      /\ response.body.scamDetected = alone.is_scam

----------------------------------------------------------------------------
(* Properties of the final callback.                                       *)

(* C20: whatever the interleaving of the calls of send_final_result, the   *)
(* evaluation endpoint accepts at most one callback per session.           *)
C20_AtMostOneAcceptedCallback ==
  \A id \in SessionIds :
    Cardinality({ i \in 1..Len(accepted) : accepted[i] = id }) <= 1

----------------------------------------------------------------------------
(* Properties of send_final_result and retry_pending_reports called one    *)
(* after the other.                                                        *)

AcceptedBefore(session_id, j) ==
  \E i \in 1..(j - 1) :
    \E k \in DOMAIN callback_calls[i].posts :
      /\ callback_calls[i].posts[k].session_id = session_id
      /\ callback_calls[i].posts[k].accepted

(* C21: in a sequential run a session gets at most one accepted POST: once *)
(* a POST for it was accepted, a later send_final_result for it returns    *)
(* True without a POST and no later call posts for it again.               *)
C21_OneAcceptedPostPerSession ==
  /\ \A id \in SessionIds :
       Cardinality({ i \in 1..Len(accepted) : accepted[i] = id }) <= 1
  /\ \A j \in 1..Len(callback_calls) :
       LET c == callback_calls[j]
       IN  /\ (c.call = "send_final_result"
                 /\ AcceptedBefore(c.session_id, j))
               => (c.posts = <<>> /\ c.value = TRUE)
           /\ \A k \in DOMAIN c.posts :
                ~AcceptedBefore(c.posts[k].session_id, j)

C21_Witness ==
  \E i, j \in 1..Len(callback_calls) :
    /\ i < j
    /\ callback_calls[i].call = "retry_pending_reports"
    /\ \E k \in DOMAIN callback_calls[i].posts :
         /\ callback_calls[i].posts[k].session_id = "s1"
         /\ callback_calls[i].posts[k].accepted
    /\ callback_calls[j].call = "send_final_result"
    /\ callback_calls[j].session_id = "s1"
    /\ callback_calls[j].posts = <<>>
    /\ callback_calls[j].value = TRUE

NoneAccepted(posts) == \A k \in DOMAIN posts : ~posts[k].accepted

C29_SentAndPendingDisjoint ==
  \A i \in 1..Len(pending_reports) :
    /\ pending_reports[i] \notin sent_callbacks
    /\ \A k \in 1..Len(accepted) : accepted[k] # pending_reports[i]

C29_Witness ==
  /\ "s1" \in sent_callbacks
  /\ "s1" \in failed_reports
  /\ pending_reports = <<"s2">>

----------------------------------------------------------------------------
(* Properties of the sessions of the router and of the final callback.     *)

(* The session the last request was for.                                   *)
HandledSession == sessions[request.payload.sessionId]

(* Some message of the history was classified as a scam when it came.      *)
EverClassified(history) ==
  \E k \in 1..Len(history) :
    analyze_message(scorer, history[k].text,
                    List(SubSeq(history, 1, k))).is_scam

CalledBackFor(id) ==
  \E j \in 1..Len(callback_calls) : callback_calls[j].session_id = id

(* C23: a call triggers the final callback only with scam_detected true    *)
(* and the intelligence of the current message complete, and no callback   *)
(* is sent for a session none of whose messages was classified as a scam.  *)
C23_CallbackOnlyForDetectedScam ==
  /\ \A id \in DOMAIN sessions :
       CalledBackFor(id) =>
         /\ sessions[id].scam_detected
         /\ EverClassified(sessions[id].conversation_history)
  /\ (request # None /\ response.callback # None) =>
       /\ HandledSession.scam_detected
       /\ response.collection_complete

C23_Witness ==
  /\ request # None
  /\ response.callback # None
  /\ response.callback.posts # <<>>
  /\ \E id \in DOMAIN sessions :
       /\ ~CalledBackFor(id)
       /\ ~sessions[id].scam_detected
       /\ sessions[id].message_count > 0
       /\ response.entities.upi_ids # {} \/ id # request.payload.sessionId

StateRank(state) ==
  CASE state = "INIT" -> 0
    [] state = "SUSPECTED" -> 1
    [] state = "ENGAGING" -> 2
    [] state = "INTEL_COMPLETE" -> 3
    [] state = "REPORTED" -> 4

(* C24: no transition of a call sets the state of the session to an        *)
(* earlier state of INIT, SUSPECTED, ENGAGING, INTEL_COMPLETE, REPORTED,   *)
(* and a session that is REPORTED stays REPORTED.                          *)
C24_StateOnlyMovesForward ==
  /\ [](request # None =>
          \A i \in 1..(Len(response.states) - 1) :
            StateRank(response.states[i]) <= StateRank(response.states[i + 1]))
  /\ [][\A id \in DOMAIN sessions :
          sessions[id].state = "REPORTED" => sessions'[id].state = "REPORTED"]_vars

(* C25: a session is REPORTED only after a callback for it returned True   *)
(* while it was in INTEL_COMPLETE, and a REPORTED session has scam_detected *)
(* and intelligence_ready true.                                            *)
C25_ReportedOnlyAfterSuccess ==
  /\ \A id \in DOMAIN sessions :
       sessions[id].state = "REPORTED" =>
         /\ sessions[id].scam_detected
         /\ sessions[id].intelligence_ready
         /\ \E j \in 1..Len(callback_calls) :
              /\ callback_calls[j].session_id = id
              /\ callback_calls[j].value = TRUE
  /\ (request # None /\ response.states[5] = "REPORTED") =>
       /\ response.states[4] = "INTEL_COMPLETE"
       /\ response.callback # None
       /\ response.callback.value = TRUE

C25_Witness ==
  /\ request # None
  /\ HandledSession.state = "REPORTED"
  /\ response.states[1] = "INTEL_COMPLETE"
  /\ Len(response.callback.posts) = 2
  /\ \E j \in 1..Len(callback_calls) :
       /\ callback_calls[j].session_id = request.payload.sessionId
       /\ callback_calls[j].value = FALSE

(* C26: after every call of process_message, a session is in INIT exactly  *)
(* when scam_detected is false and no session is in SUSPECTED; and         *)
(* scam_detected, once true, stays true.                                   *)
C26_InitIffNotDetected ==
  /\ [](\A id \in DOMAIN sessions :
          /\ sessions[id].state = "INIT" <=> ~sessions[id].scam_detected
          /\ sessions[id].state # "SUSPECTED")
  /\ [][\A id \in DOMAIN sessions :
          sessions[id].scam_detected => sessions'[id].scam_detected]_vars

C26_Witness ==
  /\ request # None
  /\ response.states[2] = "SUSPECTED"
  /\ HandledSession.state = "ENGAGING"
  /\ \E id \in DOMAIN sessions :
       sessions[id].state = "INIT" /\ sessions[id].message_count = 2

(* C27: the payload of the final callback carries, in phishingLinks,       *)
(* bankAccounts, upiIds and phoneNumbers, every entity of that kind the    *)
(* extractor recorded for the session.                                     *)
C27_EntitiesReachCallback ==
  (request # None /\ response.callback # None) =>
    /\ response.callback.payload.phishingLinks
         = response.entities.phishing_links
    /\ response.callback.payload.bankAccounts
         = response.entities.bank_accounts
    /\ response.callback.payload.upiIds = response.entities.upi_ids
    /\ response.callback.payload.phoneNumbers
         = response.entities.phone_numbers

----------------------------------------------------------------------------
(* The first-contact guard of the scorer.                                  *)

SensitiveRequests ==
  {"otp_request", "pin_request", "card_details_request", "upi_request",
   "account_number_request"}

NoSensitiveRequest(sigs) ==
  \A i \in 1..Len(sigs) : sigs[i] \notin SensitiveRequests

(* C28: with an empty history, a signal list holding none of otp_request,  *)
(* pin_request, card_details_request, upi_request, account_number_request  *)
(* gets a confidence below 0.70 and scamDetected = false.                  *)
C28_FirstContactGuard ==
  (Scored /\ conversation_history = <<>> /\ NoSensitiveRequest(signals))
    => /\ scoring.confidence < 70
       /\ ~scoring.scamDetected

C28_Witness ==
  /\ Scored
  /\ conversation_history = <<>>
  /\ NoSensitiveRequest(signals)
  /\ Len(signals) = 3
  /\ Cardinality(_get_unique_categories(signals)) = 3
  /\ scoring.confidence > 55
  /\ ~scoring.scamDetected

----------------------------------------------------------------------------
(* The phrases of one session.                                             *)

(* The phrases asked just before the i-th one: at most three.              *)
RecentBefore(questions_asked, i) ==
  {questions_asked[j] : j \in {k \in 1..(i - 1) : k >= i - 3}}

(* C30: in every session, each base phrase asked differs from the (up to)  *)
(* three base phrases asked just before it in that session.                *)
C30_PhraseNotRecentlyUsed ==
  \A id \in DOMAIN _sessions :
    \A i \in 1..Len(_sessions[id].questions_asked) :
      _sessions[id].questions_asked[i]
        \notin RecentBefore(_sessions[id].questions_asked, i)

(* Three phrases of the category "concern" asked, then a fourth reply of   *)
(* the same category: one phrase of the four was left to choose.           *)
C30_Witness ==
  /\ "s1" \in DOMAIN _sessions
  /\ Len(_sessions["s1"].questions_asked) = 4
  /\ \A i \in 1..4 : _sessions["s1"].questions_asked[i][2] = "concern"
  /\ reply # None
  /\ reply.base_reply = _sessions["s1"].questions_asked[4]

====
